---- MODULE Spec2Model ----
(***************************************************************************)
(* Register-machine interpreters of interpreter-dispatch-research.         *)
(*                                                                         *)
(* Every engine of the repository walks a program (a sequence of           *)
(* instructions) over a Context (pc, registers and, in the fused engines,  *)
(* globals).  One action per engine executes one instruction: the fetch,   *)
(* the handler and the engine's reaction to the handler's Outcome.         *)
(***************************************************************************)
EXTENDS Integers, Sequences, FiniteSets, TLC

VARIABLES
    insts,              \* insts[e]: the program handed to engine e, in e's own Inst type
    context,            \* context[e]: the Context engine e mutates
    reg0,               \* reg0[e]: the threaded register of the *_2 engines
    status,             \* status[e]: where engine e's execute call stands
    hits,               \* hits[e][i]: executions of instruction i by engine e (saturating)
    pending,            \* pending[e]: handler invocations of engine e that have not returned
    debug_assertions    \* build configuration: are debug_assert! checks compiled in

vars == <<insts, context, reg0, status, hits, pending, debug_assertions>>

----------------------------------------------------------------------------
(* Bounds of the model *)

\* Width of a machine word in the model; Bits is u64 in the source.
WordBits == 3

\* Longest program drawn by the specifications over arbitrary programs.
MaxLen == 3

\* Largest repetition count of the counter-loop programs.
MaxN == 5

\* The per-instruction execution counters saturate here.
MaxHits == MaxN + 2

\* The count of pending handler invocations saturates here.
MaxPending == MaxHits * (MaxLen + 2)

----------------------------------------------------------------------------
(* lib.rs: Bits, Context, Outcome *)

Modulus == 2 ^ WordBits

Bits == 0 .. (Modulus - 1)

NumRegs == 16

\* An addition that stops at the largest word.
wrapping_add_saturating(a, b) == IF a + b >= Modulus THEN Modulus - 1 ELSE a + b

wrapping_add(a, b) == (a + b) % Modulus

wrapping_sub(a, b) == (a - b + Modulus) % Modulus

wrapping_mul(a, b) == (a * b) % Modulus

\* A Context whose program counter starts behind the first instruction.
Context_default_behind == [pc |-> 1, regs |-> [r \in 0 .. (NumRegs - 1) |-> 0]]

\* Context::default(): pc 0 and 16 registers holding 0.
Context_default == [pc |-> 0, regs |-> [r \in 0 .. (NumRegs - 1) |-> 0]]

\* The result of running a handler: the Context it leaves and its Outcome.
\* "Panic" is a failed assertion or bounds check; "UB" is an unchecked
\* out-of-bounds access.
Result(ctx, r0, outcome) ==
    [context |-> ctx, reg0 |-> r0, outcome |-> outcome, tail |-> FALSE]

\* The handler returns to whoever invoked it.
TailCall_returns(res) == res

\* The handler ends by invoking the next instruction instead of returning.
TailCall(res) == [res EXCEPT !.tail = TRUE]

\* What an access through an index does when the index is out of range:
\* debug_assert! panics when compiled in, get_unchecked is undefined otherwise.
BadIndex == IF debug_assertions THEN "Panic" ELSE "UB"

set_reg(ctx, reg, new_value) == [ctx EXCEPT !.regs[reg] = new_value]

get_reg(ctx, reg) == ctx.regs[reg]

reg_in_range(ctx, reg) == reg \in DOMAIN ctx.regs

branch_to(ctx, new_pc) == [ctx EXCEPT !.pc = new_pc]

\* next_inst with a stride of two instructions.
next_inst_skips(ctx) == [ctx EXCEPT !.pc = ctx.pc + 2]

next_inst(ctx) == [ctx EXCEPT !.pc = ctx.pc + 1]

----------------------------------------------------------------------------
(* lib.rs: mod handler.  Each handler returns [context, outcome]. *)

Handled(ctx, outcome) == [context |-> ctx, outcome |-> outcome]

\* add that moves lhs into result before it reads rhs.
handler_add_in_place(ctx, result, lhs, rhs) ==
    IF ~(reg_in_range(ctx, lhs) /\ reg_in_range(ctx, rhs) /\ reg_in_range(ctx, result))
    THEN Handled(ctx, BadIndex)
    ELSE LET moved == set_reg(ctx, result, get_reg(ctx, lhs))
         IN Handled(next_inst(set_reg(moved, result,
                wrapping_add(get_reg(moved, result), get_reg(moved, rhs)))), "Continue")

handler_add(ctx, result, lhs, rhs) ==
    IF ~(reg_in_range(ctx, lhs) /\ reg_in_range(ctx, rhs) /\ reg_in_range(ctx, result))
    THEN Handled(ctx, BadIndex)
    ELSE Handled(next_inst(set_reg(ctx, result,
                     wrapping_add(get_reg(ctx, lhs), get_reg(ctx, rhs)))), "Continue")

handler_add_imm(ctx, result, src, imm) ==
    IF ~(reg_in_range(ctx, src) /\ reg_in_range(ctx, result))
    THEN Handled(ctx, BadIndex)
    ELSE Handled(next_inst(set_reg(ctx, result,
                     wrapping_add(get_reg(ctx, src), imm))), "Continue")

handler_sub(ctx, result, lhs, rhs) ==
    IF ~(reg_in_range(ctx, lhs) /\ reg_in_range(ctx, rhs) /\ reg_in_range(ctx, result))
    THEN Handled(ctx, BadIndex)
    ELSE Handled(next_inst(set_reg(ctx, result,
                     wrapping_sub(get_reg(ctx, lhs), get_reg(ctx, rhs)))), "Continue")

\* sub_imm that adds the immediate.
handler_sub_imm_adds(ctx, result, src, imm) ==
    IF ~(reg_in_range(ctx, src) /\ reg_in_range(ctx, result))
    THEN Handled(ctx, BadIndex)
    ELSE Handled(next_inst(set_reg(ctx, result,
                     wrapping_add(get_reg(ctx, src), imm))), "Continue")

handler_sub_imm(ctx, result, src, imm) ==
    IF ~(reg_in_range(ctx, src) /\ reg_in_range(ctx, result))
    THEN Handled(ctx, BadIndex)
    ELSE Handled(next_inst(set_reg(ctx, result,
                     wrapping_sub(get_reg(ctx, src), imm))), "Continue")

handler_mul(ctx, result, lhs, rhs) ==
    IF ~(reg_in_range(ctx, lhs) /\ reg_in_range(ctx, rhs) /\ reg_in_range(ctx, result))
    THEN Handled(ctx, BadIndex)
    ELSE Handled(next_inst(set_reg(ctx, result,
                     wrapping_mul(get_reg(ctx, lhs), get_reg(ctx, rhs)))), "Continue")

handler_mul_imm(ctx, result, src, imm) ==
    IF ~(reg_in_range(ctx, src) /\ reg_in_range(ctx, result))
    THEN Handled(ctx, BadIndex)
    ELSE Handled(next_inst(set_reg(ctx, result,
                     wrapping_mul(get_reg(ctx, src), imm))), "Continue")

handler_branch(ctx, target) == Handled(branch_to(ctx, target), "Continue")

\* branch_eqz that branches on a nonzero condition.
handler_branch_eqz_inverted(ctx, target, condition) ==
    IF ~reg_in_range(ctx, condition)
    THEN Handled(ctx, BadIndex)
    ELSE IF get_reg(ctx, condition) # 0
         THEN Handled(branch_to(ctx, target), "Continue")
         ELSE Handled(next_inst(ctx), "Continue")

handler_branch_eqz(ctx, target, condition) ==
    IF ~reg_in_range(ctx, condition)
    THEN Handled(ctx, BadIndex)
    ELSE IF get_reg(ctx, condition) = 0
         THEN Handled(branch_to(ctx, target), "Continue")
         ELSE Handled(next_inst(ctx), "Continue")

\* ret that leaves register 0 as it is.
handler_ret_no_store(ctx, result) ==
    IF ~reg_in_range(ctx, result)
    THEN Handled(ctx, BadIndex)
    ELSE Handled(ctx, "Return")

handler_ret(ctx, result) ==
    IF ~reg_in_range(ctx, result)
    THEN Handled(ctx, BadIndex)
    ELSE Handled(set_reg(ctx, 0, get_reg(ctx, result)), "Return")

----------------------------------------------------------------------------
(* switch.rs: enum Inst and Inst::execute *)

Add(result, lhs, rhs) == [op |-> "Add", result |-> result, lhs |-> lhs, rhs |-> rhs]
AddImm(result, src, imm) == [op |-> "AddImm", result |-> result, src |-> src, imm |-> imm]
Sub(result, lhs, rhs) == [op |-> "Sub", result |-> result, lhs |-> lhs, rhs |-> rhs]
SubImm(result, src, imm) == [op |-> "SubImm", result |-> result, src |-> src, imm |-> imm]
Mul(result, lhs, rhs) == [op |-> "Mul", result |-> result, lhs |-> lhs, rhs |-> rhs]
MulImm(result, src, imm) == [op |-> "MulImm", result |-> result, src |-> src, imm |-> imm]
Branch(target) == [op |-> "Branch", target |-> target]
BranchEqz(target, condition) == [op |-> "BranchEqz", target |-> target, condition |-> condition]
Return(result) == [op |-> "Return", result |-> result]

switch_Inst_execute(inst, ctx) ==
    CASE inst.op = "Add" -> handler_add(ctx, inst.result, inst.lhs, inst.rhs)
      [] inst.op = "AddImm" -> handler_add_imm(ctx, inst.result, inst.src, inst.imm)
      [] inst.op = "Sub" -> handler_sub(ctx, inst.result, inst.lhs, inst.rhs)
      [] inst.op = "SubImm" -> handler_sub_imm(ctx, inst.result, inst.src, inst.imm)
      [] inst.op = "Mul" -> handler_mul(ctx, inst.result, inst.lhs, inst.rhs)
      [] inst.op = "MulImm" -> handler_mul_imm(ctx, inst.result, inst.src, inst.imm)
      [] inst.op = "Branch" -> handler_branch(ctx, inst.target)
      [] inst.op = "BranchEqz" -> handler_branch_eqz(ctx, inst.target, inst.condition)
      [] inst.op = "Return" -> handler_ret(ctx, inst.result)

----------------------------------------------------------------------------
(* Fetching and the engines' reaction to an Outcome *)

Engines == {"switch", "closure_loop", "switch_tail", "closure_tail",
            "switch_2", "switch_tail_2", "closure_tail_2", "rt", "ct2", "ct2_twin",
            "rt2", "ct3", "closure_tree", "rt_twin", "ct", "enum_tree"}

\* The engines run one after the other, each to the end of its execute call:
\* the place of each engine in that order.
Order ==
    [switch |-> 1, closure_loop |-> 2, switch_tail |-> 3, closure_tail |-> 4,
     switch_2 |-> 5, switch_tail_2 |-> 6, closure_tail_2 |-> 7,
     rt |-> 8, ct2 |-> 9, ct2_twin |-> 10, rt2 |-> 11, ct3 |-> 12,
     closure_tree |-> 13, rt_twin |-> 14, ct |-> 15, enum_tree |-> 16]

Scheduled(e) ==
    /\ status[e] = "running"
    /\ \A f \in Engines : Order[f] < Order[e] => status[f] # "running"

Bump(h, i) == [h EXCEPT ![i] = IF h[i] < MaxHits THEN h[i] + 1 ELSE MaxHits]

\* The invocations still pending after a handler has run: one more when the
\* handler ended by invoking the next instruction; none once a handler has
\* returned, since every invocation of a tail engine returns what the
\* invocation it made returns, and none after a panic has unwound them.
Unreturned(n, res) ==
    IF res.tail /\ res.outcome = "Continue"
    THEN IF n < MaxPending THEN n + 1 ELSE MaxPending
    ELSE IF res.outcome = "UB" THEN n ELSE 0

\* Every running call writing through one and the same Context.
Borrowed_shared(e, ctx) ==
    [x \in Engines |-> IF status[x] = "running" THEN ctx ELSE context[x]]

\* execute(insts, context: &mut Context) writes the Context it was handed,
\* and no other.
Borrowed(e, ctx) == [context EXCEPT ![e] = ctx]

\* One instruction of an engine: fetch insts[pc] (bounds-checked indexing
\* panics, get_unchecked is undefined out of bounds), execute it, react to the
\* Outcome.
Step(e, exec(_, _, _), checked) ==
    /\ status[e] = "running"
    /\ LET pc == context[e].pc
       IN IF pc >= Len(insts[e])
          THEN /\ IF checked
                  THEN status' = [status EXCEPT ![e] = "panicked"]
                  ELSE \E s \in {"crashed", "undefined"} :
                           status' = [status EXCEPT ![e] = s]
               /\ pending' = [pending EXCEPT ![e] = IF checked THEN 0 ELSE @]
               /\ UNCHANGED <<context, reg0, hits>>
          ELSE \E res \in {exec(insts[e][pc + 1], context[e], reg0[e])} :
                  /\ context' = Borrowed(e, res.context)
                  /\ reg0' = [reg0 EXCEPT ![e] = res.reg0]
                  /\ hits' = [hits EXCEPT ![e] = Bump(hits[e], pc)]
                  /\ pending' = [pending EXCEPT ![e] = Unreturned(@, res)]
                  /\ CASE res.outcome = "Continue" ->
                              status' = [status EXCEPT ![e] = "running"]
                       [] res.outcome = "Return" ->
                              status' = [status EXCEPT ![e] = "returned"]
                       [] res.outcome = "Panic" ->
                              status' = [status EXCEPT ![e] = "panicked"]
                       [] res.outcome = "UB" ->
                              \E s \in {"crashed", "undefined"} :
                                  status' = [status EXCEPT ![e] = s]
    /\ UNCHANGED <<insts, debug_assertions>>

\* One turn of an engine whose execute call is the one in progress.
Turn(e, exec(_, _, _), checked) == Scheduled(e) /\ Step(e, exec, checked)

\* A loop engine hands the handler's Outcome to its driving loop.
Looped(h, r0) == Result(h.context, r0, h.outcome)

\* A tail engine whose handlers hand Continue back as if it were Return.
Chained_returns(h, r0) ==
    Result(h.context, r0, IF h.outcome = "Continue" THEN "Return" ELSE h.outcome)

\* A tail engine drops the Outcome of every handler but ret and invokes the
\* next instruction; a panic or an undefined access still ends the run.
Chained(h, r0) ==
    IF h.outcome \in {"Panic", "UB"}
    THEN Result(h.context, r0, h.outcome)
    ELSE TailCall(Result(h.context, r0, "Continue"))

----------------------------------------------------------------------------
(* switch.rs: execute *)

switch_step(inst, ctx, r0) == Looped(switch_Inst_execute(inst, ctx), r0)

switch_execute == Turn("switch", switch_step, TRUE)

----------------------------------------------------------------------------
(* closure_loop.rs: an Inst is a boxed closure over its operands *)

closure_loop_add_imm(result, src, imm) ==
    [handler |-> "add_imm", result |-> result, src |-> src, imm |-> imm]

closure_loop_sub_imm(result, src, imm) ==
    [handler |-> "sub_imm", result |-> result, src |-> src, imm |-> imm]

closure_loop_branch(target) == [handler |-> "branch", target |-> target]

closure_loop_branch_eqz(target, condition) ==
    [handler |-> "branch_eqz", target |-> target, condition |-> condition]

closure_loop_ret(result) == [handler |-> "ret", result |-> result]

closure_loop_Inst_execute(inst, ctx) ==
    CASE inst.handler = "add_imm" -> handler_add_imm(ctx, inst.result, inst.src, inst.imm)
      [] inst.handler = "sub_imm" -> handler_sub_imm(ctx, inst.result, inst.src, inst.imm)
      [] inst.handler = "branch" -> handler_branch(ctx, inst.target)
      [] inst.handler = "branch_eqz" -> handler_branch_eqz(ctx, inst.target, inst.condition)
      [] inst.handler = "ret" -> handler_ret(ctx, inst.result)

closure_loop_step(inst, ctx, r0) == Looped(closure_loop_Inst_execute(inst, ctx), r0)

closure_loop_execute == Turn("closure_loop", closure_loop_step, TRUE)

----------------------------------------------------------------------------
(* switch_tail.rs: Inst::tail_execute over switch::Inst *)

tail_execute(inst, ctx, r0) ==
    CASE inst.op = "Add" ->
             Chained(handler_add(ctx, inst.result, inst.lhs, inst.rhs), r0)
      [] inst.op = "AddImm" ->
             Chained(handler_add_imm(ctx, inst.result, inst.src, inst.imm), r0)
      [] inst.op = "Sub" ->
             Chained(handler_sub(ctx, inst.result, inst.lhs, inst.rhs), r0)
      [] inst.op = "SubImm" ->
             Chained(handler_sub_imm(ctx, inst.result, inst.src, inst.imm), r0)
      [] inst.op = "Mul" ->
             Chained(handler_mul(ctx, inst.result, inst.lhs, inst.rhs), r0)
      [] inst.op = "MulImm" ->
             Chained(handler_mul_imm(ctx, inst.result, inst.src, inst.imm), r0)
      [] inst.op = "Branch" ->
             Chained(handler_branch(ctx, inst.target), r0)
      [] inst.op = "BranchEqz" ->
             Chained(handler_branch_eqz(ctx, inst.target, inst.condition), r0)
      [] inst.op = "Return" ->
             Looped(handler_ret(ctx, inst.result), r0)

switch_tail_execute == Turn("switch_tail", tail_execute, TRUE)

----------------------------------------------------------------------------
(* closure_tail.rs: closures that invoke the next instruction themselves *)

\* add_imm whose closure captures result and src the wrong way round.
closure_tail_add_imm_swapped(result, src, imm) ==
    [handler |-> "add_imm", result |-> src, src |-> result, imm |-> imm]

closure_tail_add_imm(result, src, imm) ==
    [handler |-> "add_imm", result |-> result, src |-> src, imm |-> imm]

closure_tail_sub_imm(result, src, imm) ==
    [handler |-> "sub_imm", result |-> result, src |-> src, imm |-> imm]

closure_tail_branch(target) == [handler |-> "branch", target |-> target]

closure_tail_branch_eqz(target, condition) ==
    [handler |-> "branch_eqz", target |-> target, condition |-> condition]

closure_tail_ret(result) == [handler |-> "ret", result |-> result]

closure_tail_Inst_execute(inst, ctx, r0) ==
    CASE inst.handler = "add_imm" ->
             Chained(handler_add_imm(ctx, inst.result, inst.src, inst.imm), r0)
      [] inst.handler = "sub_imm" ->
             Chained(handler_sub_imm(ctx, inst.result, inst.src, inst.imm), r0)
      [] inst.handler = "branch" ->
             Chained(handler_branch(ctx, inst.target), r0)
      [] inst.handler = "branch_eqz" ->
             Chained(handler_branch_eqz(ctx, inst.target, inst.condition), r0)
      [] inst.handler = "ret" ->
             Looped(handler_ret(ctx, inst.result), r0)

closure_tail_execute == Turn("closure_tail", closure_tail_Inst_execute, TRUE)

----------------------------------------------------------------------------
(* switch_2.rs: switch::Inst plus AddImm0, SubImm0 and BranchEqz0, which   *)
(* work on the threaded reg0 instead of register-array slot 0              *)

AddImm0(imm) == [op |-> "AddImm0", imm |-> imm]
SubImm0(imm) == [op |-> "SubImm0", imm |-> imm]
BranchEqz0(target) == [op |-> "BranchEqz0", target |-> target]

switch_2_Inst_execute(inst, ctx, r0) ==
    CASE inst.op = "Add" ->
             Looped(handler_add(ctx, inst.result, inst.lhs, inst.rhs), r0)
      [] inst.op = "AddImm" ->
             Looped(handler_add_imm(ctx, inst.result, inst.src, inst.imm), r0)
      [] inst.op = "AddImm0" ->
             Result(next_inst(ctx), wrapping_add(r0, inst.imm), "Continue")
      [] inst.op = "Sub" ->
             Looped(handler_sub(ctx, inst.result, inst.lhs, inst.rhs), r0)
      [] inst.op = "SubImm" ->
             Looped(handler_sub_imm(ctx, inst.result, inst.src, inst.imm), r0)
      [] inst.op = "SubImm0" ->
             Result(next_inst(ctx), wrapping_sub(r0, inst.imm), "Continue")
      [] inst.op = "Mul" ->
             Looped(handler_mul(ctx, inst.result, inst.lhs, inst.rhs), r0)
      [] inst.op = "MulImm" ->
             Looped(handler_mul_imm(ctx, inst.result, inst.src, inst.imm), r0)
      [] inst.op = "Branch" ->
             Looped(handler_branch(ctx, inst.target), r0)
      [] inst.op = "BranchEqz" ->
             Looped(handler_branch_eqz(ctx, inst.target, inst.condition), r0)
      [] inst.op = "BranchEqz0" ->
             IF r0 = 0
             THEN Result(branch_to(ctx, inst.target), r0, "Continue")
             ELSE Result(next_inst(ctx), r0, "Continue")
      [] inst.op = "Return" ->
             Looped(handler_ret(ctx, inst.result), r0)

\* execute: let mut reg0 = 0; the fetch is insts.get_unchecked(pc).
switch_2_execute == Turn("switch_2", switch_2_Inst_execute, FALSE)

----------------------------------------------------------------------------
(* switch_tail_2.rs: Inst::tail_execute_2, reg0 passed as an argument *)

tail_execute_2(inst, ctx, r0) ==
    CASE inst.op = "AddImm" ->
             Chained(handler_add_imm(ctx, inst.result, inst.src, inst.imm), r0)
      [] inst.op = "AddImm0" ->
             TailCall(Result([ctx EXCEPT !.pc = ctx.pc + 1], wrapping_add(r0, inst.imm), "Continue"))
      [] inst.op = "SubImm" ->
             Chained(handler_sub_imm(ctx, inst.result, inst.src, inst.imm), r0)
      [] inst.op = "SubImm0" ->
             TailCall(Result([ctx EXCEPT !.pc = ctx.pc + 1], wrapping_sub(r0, inst.imm), "Continue"))
      [] inst.op = "Branch" ->
             Chained(handler_branch(ctx, inst.target), r0)
      [] inst.op = "BranchEqz" ->
             Chained(handler_branch_eqz(ctx, inst.target, inst.condition), r0)
      [] inst.op = "BranchEqz0" ->
             IF r0 = 0
             THEN TailCall(Result([ctx EXCEPT !.pc = inst.target], r0, "Continue"))
             ELSE TailCall(Result([ctx EXCEPT !.pc = ctx.pc + 1], r0, "Continue"))
      [] inst.op = "Return" ->
             Looped(handler_ret(ctx, inst.result), r0)

switch_tail_2_execute == Turn("switch_tail_2", tail_execute_2, FALSE)

----------------------------------------------------------------------------
(* closure_tail_2.rs: closures taking reg0 as an argument *)

closure_tail_2_add_imm(result, src, imm) ==
    [handler |-> "add_imm", result |-> result, src |-> src, imm |-> imm]

closure_tail_2_add_imm_0(imm) == [handler |-> "add_imm_0", imm |-> imm]

closure_tail_2_sub_imm(result, src, imm) ==
    [handler |-> "sub_imm", result |-> result, src |-> src, imm |-> imm]

closure_tail_2_sub_imm_0(imm) == [handler |-> "sub_imm_0", imm |-> imm]

closure_tail_2_branch(target) == [handler |-> "branch", target |-> target]

closure_tail_2_branch_eqz(target, condition) ==
    [handler |-> "branch_eqz", target |-> target, condition |-> condition]

closure_tail_2_branch_eqz_0(target) == [handler |-> "branch_eqz_0", target |-> target]

closure_tail_2_ret(result) == [handler |-> "ret", result |-> result]

closure_tail_2_Inst_execute(inst, ctx, r0) ==
    CASE inst.handler = "add_imm" ->
             Chained(handler_add_imm(ctx, inst.result, inst.src, inst.imm), r0)
      [] inst.handler = "add_imm_0" ->
             TailCall(Result([ctx EXCEPT !.pc = ctx.pc + 1], wrapping_add(r0, inst.imm), "Continue"))
      [] inst.handler = "sub_imm" ->
             Chained(handler_sub_imm(ctx, inst.result, inst.src, inst.imm), r0)
      [] inst.handler = "sub_imm_0" ->
             TailCall(Result([ctx EXCEPT !.pc = ctx.pc + 1], wrapping_sub(r0, inst.imm), "Continue"))
      [] inst.handler = "branch" ->
             Chained(handler_branch(ctx, inst.target), r0)
      [] inst.handler = "branch_eqz" ->
             Chained(handler_branch_eqz(ctx, inst.target, inst.condition), r0)
      [] inst.handler = "branch_eqz_0" ->
             IF r0 = 0
             THEN TailCall(Result([ctx EXCEPT !.pc = inst.target], r0, "Continue"))
             ELSE TailCall(Result([ctx EXCEPT !.pc = ctx.pc + 1], r0, "Continue"))
      [] inst.handler = "ret" ->
             Looped(handler_ret(ctx, inst.result), r0)

closure_tail_2_execute == Turn("closure_tail_2", closure_tail_2_Inst_execute, FALSE)

----------------------------------------------------------------------------
(* fused/mod.rs: Register, Global, Const and the Context with globals *)

Register(index) == [type |-> "Register", index |-> index]

Global(index) == [type |-> "Global", index |-> index]

Const(bits) == [type |-> "Const", bits |-> bits]

NumGlobals == 16

fused_Context_default ==
    [pc |-> 0,
     regs |-> [r \in 0 .. (NumRegs - 1) |-> 0],
     globals |-> [g \in 0 .. (NumGlobals - 1) |-> 0]]

\* A value read from the Context, or the fault that the read ends in.
Loaded(value) == [fault |-> "None", value |-> value]

Faulted(fault) == [fault |-> fault, value |-> 0]

\* A Context after a store, or the fault that the store ends in.
Stored(ctx) == [fault |-> "None", context |-> ctx]

Unstored(ctx, fault) == [fault |-> fault, context |-> ctx]

\* set_reg: debug_assert!(reg < self.regs.len()), then get_unchecked_mut.
fused_set_reg(ctx, reg, new_value) ==
    IF reg.index \in DOMAIN ctx.regs
    THEN Stored([ctx EXCEPT !.regs[reg.index] = new_value])
    ELSE Unstored(ctx, BadIndex)

\* get_reg: debug_assert!(reg < self.regs.len()), then get_unchecked.
fused_get_reg(ctx, reg) ==
    IF reg.index \in DOMAIN ctx.regs
    THEN Loaded(ctx.regs[reg.index])
    ELSE Faulted(BadIndex)

\* set_global that wraps the index into the array instead of asserting.
set_global_wraps(ctx, global, new_value) ==
    Stored([ctx EXCEPT !.globals[global.index % NumGlobals] = new_value])

\* set_global: debug_assert!(global < self.globals.len()), then get_unchecked_mut.
set_global(ctx, global, new_value) ==
    IF global.index \in DOMAIN ctx.globals
    THEN Stored([ctx EXCEPT !.globals[global.index] = new_value])
    ELSE Unstored(ctx, BadIndex)

\* get_global: debug_assert!(global > self.globals.len()), then get_unchecked.
get_global(ctx, global) ==
    IF debug_assertions /\ ~(global.index > NumGlobals)
    THEN Faulted("Panic")
    ELSE IF global.index \in DOMAIN ctx.globals
         THEN Loaded(ctx.globals[global.index])
         ELSE Faulted("UB")

----------------------------------------------------------------------------
(* fused/rt.rs: Source, Sink and the dynamic instructions.  A Source or a  *)
(* Sink is the enum wrapping a Register, Global or Const: its tag is the   *)
(* type of the value it wraps.                                             *)

Source_load(source, ctx) ==
    CASE source.type = "Const" -> Loaded(source.bits)
      [] source.type = "Register" -> fused_get_reg(ctx, source)
      [] source.type = "Global" -> get_global(ctx, source)

\* A store that takes every sink for a register.
Sink_store_aliased(sink, ctx, value) == fused_set_reg(ctx, sink, value)

Sink_store(sink, ctx, value) ==
    CASE sink.type = "Register" -> fused_set_reg(ctx, sink, value)
      [] sink.type = "Global" -> set_global(ctx, sink, value)

rt_add(result, lhs, rhs) == [op |-> "Add", result |-> result, lhs |-> lhs, rhs |-> rhs]

rt_sub(result, lhs, rhs) == [op |-> "Sub", result |-> result, lhs |-> lhs, rhs |-> rhs]

rt_mul(result, lhs, rhs) == [op |-> "Mul", result |-> result, lhs |-> lhs, rhs |-> rhs]

rt_branch(target) == [op |-> "Branch", target |-> target]

rt_branch_eqz(target, condition) ==
    [op |-> "BranchEqz", target |-> target, condition |-> condition]

rt_ret(result) == [op |-> "Return", result |-> result]

\* The shape shared by the binary instructions: load lhs, load rhs, store
\* op(lhs, rhs) into result, advance.  load(_, _) and store(_, _, _) are the
\* operand accessors of the engine.
Binary(inst, ctx, value(_, _), load(_, _), store(_, _, _)) ==
    LET lhs == load(inst.lhs, ctx)
        rhs == load(inst.rhs, ctx)
    IN IF lhs.fault # "None" THEN Handled(ctx, lhs.fault)
       ELSE IF rhs.fault # "None" THEN Handled(ctx, rhs.fault)
       ELSE LET st == store(inst.result, ctx, value(lhs.value, rhs.value))
            IN IF st.fault # "None" THEN Handled(ctx, st.fault)
               ELSE Handled(next_inst(st.context), "Continue")

eq_bits(a, b) == IF a = b THEN 1 ELSE 0

ne_bits(a, b) == IF a # b THEN 1 ELSE 0

rt_AddInst_execute(inst, ctx) == Binary(inst, ctx, wrapping_add, Source_load, Sink_store)

rt_SubInst_execute(inst, ctx) == Binary(inst, ctx, wrapping_sub, Source_load, Sink_store)

rt_MulInst_execute(inst, ctx) == Binary(inst, ctx, wrapping_mul, Source_load, Sink_store)

rt_EqInst_execute(inst, ctx) == Binary(inst, ctx, eq_bits, Source_load, Sink_store)

rt_NeInst_execute(inst, ctx) == Binary(inst, ctx, ne_bits, Source_load, Sink_store)

rt_BranchInst_execute(inst, ctx) == Handled(branch_to(ctx, inst.target), "Continue")

rt_BranchEqzInst_execute(inst, ctx) ==
    LET condition == Source_load(inst.condition, ctx)
    IN IF condition.fault # "None" THEN Handled(ctx, condition.fault)
       ELSE IF condition.value = 0
            THEN Handled(branch_to(ctx, inst.target), "Continue")
            ELSE Handled(next_inst(ctx), "Continue")

rt_ReturnInst_execute(inst, ctx) ==
    LET result == Source_load(inst.result, ctx)
    IN IF result.fault # "None" THEN Handled(ctx, result.fault)
       ELSE LET st == fused_set_reg(ctx, Register(0), result.value)
            IN Handled(st.context, IF st.fault # "None" THEN st.fault ELSE "Return")

rt_Inst_execute(inst, ctx, r0) ==
    CASE inst.op = "Add" -> Looped(rt_AddInst_execute(inst, ctx), r0)
      [] inst.op = "Sub" -> Looped(rt_SubInst_execute(inst, ctx), r0)
      [] inst.op = "Mul" -> Looped(rt_MulInst_execute(inst, ctx), r0)
      [] inst.op = "Eq" -> Looped(rt_EqInst_execute(inst, ctx), r0)
      [] inst.op = "Ne" -> Looped(rt_NeInst_execute(inst, ctx), r0)
      [] inst.op = "Branch" -> Looped(rt_BranchInst_execute(inst, ctx), r0)
      [] inst.op = "BranchEqz" -> Looped(rt_BranchEqzInst_execute(inst, ctx), r0)
      [] inst.op = "Return" -> Looped(rt_ReturnInst_execute(inst, ctx), r0)

rt_execute == Turn("rt", rt_Inst_execute, TRUE)

----------------------------------------------------------------------------
(* fused/ct.rs: Load and Store per operand type (bounds-checked indexing)  *)
(* and the instructions generic over their operand types                   *)

ct_Store(sink, ctx, value) ==
    CASE sink.type = "Register" ->
             IF sink.index \in DOMAIN ctx.regs
             THEN Stored([ctx EXCEPT !.regs[sink.index] = value])
             ELSE Unstored(ctx, "Panic")
      [] sink.type = "Global" ->
             IF sink.index \in DOMAIN ctx.globals
             THEN Stored([ctx EXCEPT !.globals[sink.index] = value])
             ELSE Unstored(ctx, "Panic")

\* Load whose Global impl indexes the registers.
ct_Load_global_from_regs(source, ctx) ==
    CASE source.type = "Register" ->
             IF source.index \in DOMAIN ctx.regs
             THEN Loaded(ctx.regs[source.index])
             ELSE Faulted("Panic")
      [] source.type = "Global" ->
             IF source.index \in DOMAIN ctx.regs
             THEN Loaded(ctx.regs[source.index])
             ELSE Faulted("Panic")
      [] source.type = "Const" -> Loaded(source.bits)

ct_Load(source, ctx) ==
    CASE source.type = "Register" ->
             IF source.index \in DOMAIN ctx.regs
             THEN Loaded(ctx.regs[source.index])
             ELSE Faulted("Panic")
      [] source.type = "Global" ->
             IF source.index \in DOMAIN ctx.globals
             THEN Loaded(ctx.globals[source.index])
             ELSE Faulted("Panic")
      [] source.type = "Const" -> Loaded(source.bits)

ct_AddInst_new(result, lhs, rhs) == [op |-> "Add", result |-> result, lhs |-> lhs, rhs |-> rhs]

ct_SubInst_new(result, lhs, rhs) == [op |-> "Sub", result |-> result, lhs |-> lhs, rhs |-> rhs]

ct_BranchInst_new(target) == [op |-> "Branch", target |-> target]

ct_BranchEqzInst_new(target, condition) ==
    [op |-> "BranchEqz", target |-> target, condition |-> condition]

ct_ReturnInst_new(result) == [op |-> "Return", result |-> result]

ct_AddInst_execute(inst, ctx) == Binary(inst, ctx, wrapping_add, ct_Load, ct_Store)

ct_SubInst_execute(inst, ctx) == Binary(inst, ctx, wrapping_sub, ct_Load, ct_Store)

ct_BranchInst_execute(inst, ctx) == Handled(branch_to(ctx, inst.target), "Continue")

ct_BranchEqzInst_execute(inst, ctx) ==
    LET condition == ct_Load(inst.condition, ctx)
    IN IF condition.fault # "None" THEN Handled(ctx, condition.fault)
       ELSE IF condition.value = 0
            THEN Handled(branch_to(ctx, inst.target), "Continue")
            ELSE Handled(next_inst(ctx), "Continue")

ct_ReturnInst_execute(inst, ctx) ==
    LET result == ct_Load(inst.result, ctx)
    IN IF result.fault # "None" THEN Handled(ctx, result.fault)
       ELSE LET st == fused_set_reg(ctx, Register(0), result.value)
            IN Handled(st.context, IF st.fault # "None" THEN st.fault ELSE "Return")

----------------------------------------------------------------------------
(* fused/ct2.rs: the enum of specialized instructions, Compile, execute *)

\* enum Inst: the variant that holds an instruction with operands of the
\* given types (derive_more::From picks the variant by the instruction's type).
VariantOf ==
    <<"Add", "Register", "Register", "Register">> :> "AddRrr" @@
    <<"Add", "Register", "Register", "Global">> :> "AddRrg" @@
    <<"Add", "Register", "Register", "Const">> :> "AddRrc" @@
    <<"Add", "Register", "Global", "Register">> :> "AddRgr" @@
    <<"Add", "Register", "Global", "Global">> :> "AddRgg" @@
    <<"Add", "Register", "Global", "Const">> :> "AddRgc" @@
    <<"Add", "Register", "Const", "Register">> :> "AddRcr" @@
    <<"Add", "Register", "Const", "Global">> :> "AddRcg" @@
    <<"Add", "Register", "Const", "Const">> :> "AddRcc" @@
    <<"Add", "Global", "Register", "Register">> :> "AddGrr" @@
    <<"Add", "Global", "Register", "Global">> :> "AddGrg" @@
    <<"Add", "Global", "Register", "Const">> :> "AddGrc" @@
    <<"Add", "Global", "Global", "Register">> :> "AddGgr" @@
    <<"Add", "Global", "Global", "Global">> :> "AddGgg" @@
    <<"Add", "Global", "Global", "Const">> :> "AddGgc" @@
    <<"Add", "Global", "Const", "Register">> :> "AddGcr" @@
    <<"Add", "Global", "Const", "Global">> :> "AddGcg" @@
    <<"Add", "Global", "Const", "Const">> :> "AddGcc" @@
    <<"Sub", "Register", "Register", "Register">> :> "SubRrr" @@
    <<"Sub", "Register", "Register", "Global">> :> "SubRrg" @@
    <<"Sub", "Register", "Register", "Const">> :> "SubRrc" @@
    <<"Sub", "Register", "Global", "Register">> :> "SubRgr" @@
    <<"Sub", "Register", "Global", "Global">> :> "SubRgg" @@
    <<"Sub", "Register", "Global", "Const">> :> "SubRgc" @@
    <<"Sub", "Register", "Const", "Register">> :> "SubRcr" @@
    <<"Sub", "Register", "Const", "Global">> :> "SubRcg" @@
    <<"Sub", "Register", "Const", "Const">> :> "SubRcc" @@
    <<"Sub", "Global", "Register", "Register">> :> "SubGrr" @@
    <<"Sub", "Global", "Register", "Global">> :> "SubGrg" @@
    <<"Sub", "Global", "Register", "Const">> :> "SubGrc" @@
    <<"Sub", "Global", "Global", "Register">> :> "SubGgr" @@
    <<"Sub", "Global", "Global", "Global">> :> "SubGgg" @@
    <<"Sub", "Global", "Global", "Const">> :> "SubGgc" @@
    <<"Sub", "Global", "Const", "Register">> :> "SubGcr" @@
    <<"Sub", "Global", "Const", "Global">> :> "SubGcg" @@
    <<"Sub", "Global", "Const", "Const">> :> "SubGcc" @@
    <<"Branch">> :> "Branch" @@
    <<"BranchEqz", "Register">> :> "BranchEqzR" @@
    <<"BranchEqz", "Const">> :> "BranchEqzC" @@
    <<"BranchEqz", "Global">> :> "BranchEqzG" @@
    <<"Return", "Register">> :> "ReturnR" @@
    <<"Return", "Const">> :> "ReturnC" @@
    <<"Return", "Global">> :> "ReturnG"

TypeOf(inst) ==
    CASE inst.op \in {"Add", "Sub"} ->
             <<inst.op, inst.result.type, inst.lhs.type, inst.rhs.type>>
      [] inst.op = "Branch" -> <<"Branch">>
      [] inst.op = "BranchEqz" -> <<"BranchEqz", inst.condition.type>>
      [] inst.op = "Return" -> <<"Return", inst.result.type>>

Inst_from(inst) == [variant |-> VariantOf[TypeOf(inst)], inst |-> inst]

compile_DynamicAddInst(inst) ==
    CASE inst.result.type = "Register" /\ inst.lhs.type = "Const" /\ inst.rhs.type = "Const" ->
             Inst_from(ct_AddInst_new(inst.result, inst.lhs, inst.rhs))
      [] inst.result.type = "Register" /\ inst.lhs.type = "Const" /\ inst.rhs.type = "Register" ->
             Inst_from(ct_AddInst_new(inst.result, inst.lhs, inst.rhs))
      [] inst.result.type = "Register" /\ inst.lhs.type = "Const" /\ inst.rhs.type = "Global" ->
             Inst_from(ct_AddInst_new(inst.result, inst.lhs, inst.rhs))
      [] inst.result.type = "Register" /\ inst.lhs.type = "Register" /\ inst.rhs.type = "Const" ->
             Inst_from(ct_AddInst_new(inst.result, inst.lhs, inst.rhs))
      [] inst.result.type = "Register" /\ inst.lhs.type = "Register" /\ inst.rhs.type = "Register" ->
             Inst_from(ct_AddInst_new(inst.result, inst.lhs, inst.rhs))
      [] inst.result.type = "Register" /\ inst.lhs.type = "Register" /\ inst.rhs.type = "Global" ->
             Inst_from(ct_AddInst_new(inst.result, inst.lhs, inst.rhs))
      [] inst.result.type = "Register" /\ inst.lhs.type = "Global" /\ inst.rhs.type = "Const" ->
             Inst_from(ct_AddInst_new(inst.result, inst.lhs, inst.rhs))
      [] inst.result.type = "Register" /\ inst.lhs.type = "Global" /\ inst.rhs.type = "Register" ->
             Inst_from(ct_AddInst_new(inst.result, inst.lhs, inst.rhs))
      [] inst.result.type = "Register" /\ inst.lhs.type = "Global" /\ inst.rhs.type = "Global" ->
             Inst_from(ct_AddInst_new(inst.result, inst.lhs, inst.rhs))
      [] inst.result.type = "Global" /\ inst.lhs.type = "Const" /\ inst.rhs.type = "Const" ->
             Inst_from(ct_AddInst_new(inst.result, inst.lhs, inst.rhs))
      [] inst.result.type = "Global" /\ inst.lhs.type = "Const" /\ inst.rhs.type = "Register" ->
             Inst_from(ct_AddInst_new(inst.result, inst.lhs, inst.rhs))
      [] inst.result.type = "Global" /\ inst.lhs.type = "Const" /\ inst.rhs.type = "Global" ->
             Inst_from(ct_AddInst_new(inst.result, inst.lhs, inst.rhs))
      [] inst.result.type = "Global" /\ inst.lhs.type = "Register" /\ inst.rhs.type = "Const" ->
             Inst_from(ct_AddInst_new(inst.result, inst.lhs, inst.rhs))
      [] inst.result.type = "Global" /\ inst.lhs.type = "Register" /\ inst.rhs.type = "Register" ->
             Inst_from(ct_AddInst_new(inst.result, inst.lhs, inst.rhs))
      [] inst.result.type = "Global" /\ inst.lhs.type = "Register" /\ inst.rhs.type = "Global" ->
             Inst_from(ct_AddInst_new(inst.result, inst.lhs, inst.rhs))
      [] inst.result.type = "Global" /\ inst.lhs.type = "Global" /\ inst.rhs.type = "Const" ->
             Inst_from(ct_AddInst_new(inst.result, inst.lhs, inst.rhs))
      [] inst.result.type = "Global" /\ inst.lhs.type = "Global" /\ inst.rhs.type = "Register" ->
             Inst_from(ct_AddInst_new(inst.result, inst.lhs, inst.rhs))
      [] inst.result.type = "Global" /\ inst.lhs.type = "Global" /\ inst.rhs.type = "Global" ->
             Inst_from(ct_AddInst_new(inst.result, inst.lhs, inst.rhs))

\* Compile for DynamicSubInst that hands the sources over in the other order.
compile_DynamicSubInst_swapped(inst) ==
    Inst_from(ct_SubInst_new(inst.result, inst.rhs, inst.lhs))

compile_DynamicSubInst(inst) ==
    CASE inst.result.type = "Register" /\ inst.lhs.type = "Const" /\ inst.rhs.type = "Const" ->
             Inst_from(ct_SubInst_new(inst.result, inst.lhs, inst.rhs))
      [] inst.result.type = "Register" /\ inst.lhs.type = "Const" /\ inst.rhs.type = "Register" ->
             Inst_from(ct_SubInst_new(inst.result, inst.lhs, inst.rhs))
      [] inst.result.type = "Register" /\ inst.lhs.type = "Const" /\ inst.rhs.type = "Global" ->
             Inst_from(ct_SubInst_new(inst.result, inst.lhs, inst.rhs))
      [] inst.result.type = "Register" /\ inst.lhs.type = "Register" /\ inst.rhs.type = "Const" ->
             Inst_from(ct_SubInst_new(inst.result, inst.lhs, inst.rhs))
      [] inst.result.type = "Register" /\ inst.lhs.type = "Register" /\ inst.rhs.type = "Register" ->
             Inst_from(ct_SubInst_new(inst.result, inst.lhs, inst.rhs))
      [] inst.result.type = "Register" /\ inst.lhs.type = "Register" /\ inst.rhs.type = "Global" ->
             Inst_from(ct_SubInst_new(inst.result, inst.lhs, inst.rhs))
      [] inst.result.type = "Register" /\ inst.lhs.type = "Global" /\ inst.rhs.type = "Const" ->
             Inst_from(ct_SubInst_new(inst.result, inst.lhs, inst.rhs))
      [] inst.result.type = "Register" /\ inst.lhs.type = "Global" /\ inst.rhs.type = "Register" ->
             Inst_from(ct_SubInst_new(inst.result, inst.lhs, inst.rhs))
      [] inst.result.type = "Register" /\ inst.lhs.type = "Global" /\ inst.rhs.type = "Global" ->
             Inst_from(ct_SubInst_new(inst.result, inst.lhs, inst.rhs))
      [] inst.result.type = "Global" /\ inst.lhs.type = "Const" /\ inst.rhs.type = "Const" ->
             Inst_from(ct_SubInst_new(inst.result, inst.lhs, inst.rhs))
      [] inst.result.type = "Global" /\ inst.lhs.type = "Const" /\ inst.rhs.type = "Register" ->
             Inst_from(ct_SubInst_new(inst.result, inst.lhs, inst.rhs))
      [] inst.result.type = "Global" /\ inst.lhs.type = "Const" /\ inst.rhs.type = "Global" ->
             Inst_from(ct_SubInst_new(inst.result, inst.lhs, inst.rhs))
      [] inst.result.type = "Global" /\ inst.lhs.type = "Register" /\ inst.rhs.type = "Const" ->
             Inst_from(ct_SubInst_new(inst.result, inst.lhs, inst.rhs))
      [] inst.result.type = "Global" /\ inst.lhs.type = "Register" /\ inst.rhs.type = "Register" ->
             Inst_from(ct_SubInst_new(inst.result, inst.lhs, inst.rhs))
      [] inst.result.type = "Global" /\ inst.lhs.type = "Register" /\ inst.rhs.type = "Global" ->
             Inst_from(ct_SubInst_new(inst.result, inst.lhs, inst.rhs))
      [] inst.result.type = "Global" /\ inst.lhs.type = "Global" /\ inst.rhs.type = "Const" ->
             Inst_from(ct_SubInst_new(inst.result, inst.lhs, inst.rhs))
      [] inst.result.type = "Global" /\ inst.lhs.type = "Global" /\ inst.rhs.type = "Register" ->
             Inst_from(ct_SubInst_new(inst.result, inst.lhs, inst.rhs))
      [] inst.result.type = "Global" /\ inst.lhs.type = "Global" /\ inst.rhs.type = "Global" ->
             Inst_from(ct_SubInst_new(inst.result, inst.lhs, inst.rhs))

compile_DynamicBranchInst(inst) == Inst_from(ct_BranchInst_new(inst.target))

compile_DynamicBranchEqzInst(inst) ==
    CASE inst.condition.type = "Const" ->
             Inst_from(ct_BranchEqzInst_new(inst.target, inst.condition))
      [] inst.condition.type = "Register" ->
             Inst_from(ct_BranchEqzInst_new(inst.target, inst.condition))
      [] inst.condition.type = "Global" ->
             Inst_from(ct_BranchEqzInst_new(inst.target, inst.condition))

compile_DynamicReturnInst(inst) ==
    CASE inst.result.type = "Const" -> Inst_from(ct_ReturnInst_new(inst.result))
      [] inst.result.type = "Register" -> Inst_from(ct_ReturnInst_new(inst.result))
      [] inst.result.type = "Global" -> Inst_from(ct_ReturnInst_new(inst.result))

\* impl Compile for DynamicInst: the five opcodes that have a specialized form.
compile(inst) ==
    CASE inst.op = "Add" -> compile_DynamicAddInst(inst)
      [] inst.op = "Sub" -> compile_DynamicSubInst(inst)
      [] inst.op = "Branch" -> compile_DynamicBranchInst(inst)
      [] inst.op = "BranchEqz" -> compile_DynamicBranchEqzInst(inst)
      [] inst.op = "Return" -> compile_DynamicReturnInst(inst)

\* A map that hands the instructions back in reverse order.
compile_program_reversed(P) == [i \in DOMAIN P |-> compile(P[Len(P) + 1 - i])]

\* insts.map(DynamicInst::compile)
compile_program(P) == [i \in DOMAIN P |-> compile(P[i])]

AddVariants == {VariantOf[t] : t \in {u \in DOMAIN VariantOf : u[1] = "Add"}}

SubVariants == {VariantOf[t] : t \in {u \in DOMAIN VariantOf : u[1] = "Sub"}}

\* impl Execute for Inst: every arm is inst.execute(context) on the variant's payload.
ct2_Inst_execute(i, ctx, r0) ==
    CASE i.variant \in AddVariants -> Looped(ct_AddInst_execute(i.inst, ctx), r0)
      [] i.variant \in SubVariants -> Looped(ct_SubInst_execute(i.inst, ctx), r0)
      [] i.variant = "Branch" -> Looped(ct_BranchInst_execute(i.inst, ctx), r0)
      [] i.variant \in {"BranchEqzR", "BranchEqzC", "BranchEqzG"} ->
             Looped(ct_BranchEqzInst_execute(i.inst, ctx), r0)
      [] i.variant \in {"ReturnR", "ReturnC", "ReturnG"} ->
             Looped(ct_ReturnInst_execute(i.inst, ctx), r0)

ct2_execute == Turn("ct2", ct2_Inst_execute, TRUE)

\* A second call of ct2::execute, on another program and Context.
ct2_execute_twin == Turn("ct2_twin", ct2_Inst_execute, TRUE)

----------------------------------------------------------------------------
(* Programs and initial Contexts the specifications draw from *)

\* The registers the programs use.
RegPool == {0, 1}

\* The arithmetic instructions of the programs: every arithmetic opcode of
\* switch::Inst, with operands that tell result, lhs and rhs apart and
\* immediates that wrap.
ArithPool ==
    {Add(0, 0, 1), Sub(1, 0, 1), Mul(1, 1, 0),
     AddImm(0, 1, Modulus - 1), SubImm(0, 0, 1), MulImm(1, 0, Modulus - 1)}

\* The instructions of a program of length n: ArithPool and every branch
\* to a target inside the program, every Return.
InstPool(n) ==
    ArithPool
    \cup {Branch(t) : t \in 0 .. (n - 1)}
    \cup {BranchEqz(t, c) : t \in 0 .. (n - 1), c \in RegPool}
    \cup {Return(r) : r \in RegPool}

IsReturn(inst) ==
    IF "op" \in DOMAIN inst THEN inst.op = "Return" ELSE inst.handler = "ret"

IsBranch(inst) ==
    IF "op" \in DOMAIN inst THEN inst.op = "Branch" ELSE inst.handler = "branch"

IsBranchEqz(inst) ==
    IF "op" \in DOMAIN inst THEN inst.op = "BranchEqz" ELSE inst.handler = "branch_eqz"

\* Control-flow successors of instruction i (0-based) of program P.
Successors(P, i) ==
    LET inst == P[i + 1]
    IN CASE IsReturn(inst) -> {}
         [] IsBranch(inst) -> {inst.target}
         [] IsBranchEqz(inst) -> {inst.target, i + 1}
         [] OTHER -> {i + 1}

RECURSIVE ReachableFrom(_, _)
ReachableFrom(P, S) ==
    LET T == S \cup UNION {Successors(P, i) : i \in {j \in S : j < Len(P)}}
    IN IF T = S THEN S ELSE ReachableFrom(P, T)

\* The programs: up to MaxLen instructions, each of them reachable from pc = 0
\* in the control flow.
Programs ==
    {P \in UNION {[1 .. n -> InstPool(n)] : n \in 1 .. MaxLen} :
        (0 .. (Len(P) - 1)) \subseteq ReachableFrom(P, {0})}

\* The initial Context: pc = 0, register 1 holds 1 and the others 0, so that a
\* BranchEqz finds a zero and a nonzero register.
InitContexts ==
    {[Context_default EXCEPT !.regs[1] = 1]}

Ops(P) == {P[i].op : i \in DOMAIN P}

\* closure_loop.rs and closure_tail.rs have constructors for five opcodes only.
ClosureOps == {"AddImm", "SubImm", "Branch", "BranchEqz", "Return"}

\* The program P written with the closure constructors of closure_loop.rs.
closure_loop_program(P) ==
    [i \in DOMAIN P |->
        CASE P[i].op = "AddImm" -> closure_loop_add_imm(P[i].result, P[i].src, P[i].imm)
          [] P[i].op = "SubImm" -> closure_loop_sub_imm(P[i].result, P[i].src, P[i].imm)
          [] P[i].op = "Branch" -> closure_loop_branch(P[i].target)
          [] P[i].op = "BranchEqz" -> closure_loop_branch_eqz(P[i].target, P[i].condition)
          [] P[i].op = "Return" -> closure_loop_ret(P[i].result)]

\* The program P written with the closure constructors of closure_tail.rs.
closure_tail_program(P) ==
    [i \in DOMAIN P |->
        CASE P[i].op = "AddImm" -> closure_tail_add_imm(P[i].result, P[i].src, P[i].imm)
          [] P[i].op = "SubImm" -> closure_tail_sub_imm(P[i].result, P[i].src, P[i].imm)
          [] P[i].op = "Branch" -> closure_tail_branch(P[i].target)
          [] P[i].op = "BranchEqz" -> closure_tail_branch_eqz(P[i].target, P[i].condition)
          [] P[i].op = "Return" -> closure_tail_ret(P[i].result)]

\* The engines named in progs start running, each on its program and Context.
Start(progs, ctxs, dbg) ==
    /\ insts = [e \in Engines |-> IF e \in DOMAIN progs THEN progs[e] ELSE <<>>]
    /\ context = [e \in Engines |-> IF e \in DOMAIN ctxs THEN ctxs[e] ELSE Context_default]
    /\ reg0 = [e \in Engines |-> 0]
    /\ status = [e \in Engines |-> IF e \in DOMAIN progs THEN "running" ELSE "idle"]
    /\ hits = [e \in Engines |->
                  IF e \in DOMAIN progs THEN [i \in 0 .. (Len(progs[e]) - 1) |-> 0] ELSE <<>>]
    /\ pending = [e \in Engines |-> 0]
    /\ debug_assertions = dbg

----------------------------------------------------------------------------
(* The dispatch engines over one program: switch, closure_loop, switch_tail *)
(* and closure_tail run the same program from the same Context.            *)

DispatchEngines == {"switch", "closure_loop", "switch_tail", "closure_tail"}

DispatchPrograms(P) ==
    [e \in (IF Ops(P) \subseteq ClosureOps THEN DispatchEngines
                                            ELSE {"switch", "switch_tail"}) |->
        CASE e = "closure_loop" -> closure_loop_program(P)
          [] e = "closure_tail" -> closure_tail_program(P)
          [] OTHER -> P]

InitDispatch ==
    \E P \in Programs, c \in InitContexts :
        Start(DispatchPrograms(P), [e \in DispatchEngines |-> c], TRUE)

NextDispatch ==
    \/ switch_execute
    \/ closure_loop_execute
    \/ switch_tail_execute
    \/ closure_tail_execute

SpecDispatch == InitDispatch /\ [][NextDispatch]_vars

----------------------------------------------------------------------------
(* The threaded-register engines against switch: P runs on switch and the  *)
(* program with AddImm0, SubImm0 and BranchEqz0 in place of the            *)
(* instructions on register 0 runs on switch_2, switch_tail_2 and          *)
(* closure_tail_2, all from the default Context.                           *)

\* The rewriting that the counter_loop tests of the *_2 engines apply to the
\* counter loop of switch.rs; there is no Return0, Return stays as it is.
Rewrite0(P) ==
    [i \in DOMAIN P |->
        CASE P[i].op = "AddImm" /\ P[i].result = 0 /\ P[i].src = 0 -> AddImm0(P[i].imm)
          [] P[i].op = "SubImm" /\ P[i].result = 0 /\ P[i].src = 0 -> SubImm0(P[i].imm)
          [] P[i].op = "BranchEqz" /\ P[i].condition = 0 -> BranchEqz0(P[i].target)
          [] OTHER -> P[i]]

\* A program of switch_tail_2::Inst written with the constructors of closure_tail_2.rs.
closure_tail_2_program(P) ==
    [i \in DOMAIN P |->
        CASE P[i].op = "AddImm" -> closure_tail_2_add_imm(P[i].result, P[i].src, P[i].imm)
          [] P[i].op = "AddImm0" -> closure_tail_2_add_imm_0(P[i].imm)
          [] P[i].op = "SubImm" -> closure_tail_2_sub_imm(P[i].result, P[i].src, P[i].imm)
          [] P[i].op = "SubImm0" -> closure_tail_2_sub_imm_0(P[i].imm)
          [] P[i].op = "Branch" -> closure_tail_2_branch(P[i].target)
          [] P[i].op = "BranchEqz" -> closure_tail_2_branch_eqz(P[i].target, P[i].condition)
          [] P[i].op = "BranchEqz0" -> closure_tail_2_branch_eqz_0(P[i].target)
          [] P[i].op = "Return" -> closure_tail_2_ret(P[i].result)]

\* Instructions that touch register 0 only as AddImm(0,0,i), SubImm(0,0,i),
\* BranchEqz(t,0) and Return(0), and instructions on register 1.
ThreadedPool(n) ==
    {AddImm(0, 0, 1), AddImm(0, 0, Modulus - 1), SubImm(0, 0, 1),
     AddImm(1, 1, 1), SubImm(1, 1, 1), Mul(1, 1, 1)}
    \cup {Branch(t) : t \in 0 .. (n - 1)}
    \cup {BranchEqz(t, c) : t \in 0 .. (n - 1), c \in RegPool}
    \cup {Return(r) : r \in RegPool}

ThreadedPrograms == UNION {[1 .. n -> ThreadedPool(n)] : n \in 1 .. MaxLen}

ThreadedEngines == {"switch_2", "switch_tail_2", "closure_tail_2"}

ThreadedRuns(P) ==
    [e \in (IF Ops(P) \subseteq ClosureOps THEN {"switch"} \cup ThreadedEngines
                                            ELSE {"switch", "switch_2"}) |->
        CASE e = "switch" -> P
          [] e = "closure_tail_2" -> closure_tail_2_program(Rewrite0(P))
          [] OTHER -> Rewrite0(P)]

InitThreaded ==
    \E P \in ThreadedPrograms :
        Start(ThreadedRuns(P), [e \in Engines |-> Context_default], TRUE)

NextThreaded ==
    \/ switch_execute
    \/ switch_2_execute
    \/ switch_tail_2_execute
    \/ closure_tail_2_execute

SpecThreaded == InitThreaded /\ [][NextThreaded]_vars

----------------------------------------------------------------------------
(* The dynamic engine against the specialized one: P runs on rt::execute   *)
(* and P.map(compile) on ct2::execute from the same Context.               *)

\* The programs of mixed operand kinds are one instruction shorter.
FusedLen == MaxLen - 1

FusedSinks == {Register(1), Global(1)}

FusedSources == {Register(1), Global(1), Const(1)}

FusedPool(n) ==
    {rt_add(s, a, b) : s \in FusedSinks, a \in FusedSources, b \in FusedSources}
    \cup {rt_sub(Register(1), Register(1), Const(1)), rt_sub(Global(1), Global(1), Const(1))}
    \cup {rt_branch(t) : t \in 0 .. (n - 1)}
    \cup {rt_branch_eqz(t, c) : t \in 0 .. (n - 1), c \in FusedSources}

FusedReturns == {rt_ret(r) : r \in FusedSources}

\* Programs that end in a Return.
FusedPrograms ==
    UNION {{P \in [1 .. n -> FusedPool(n) \cup FusedReturns] : P[n] \in FusedReturns} :
              n \in 1 .. FusedLen}

FusedContexts ==
    {[fused_Context_default EXCEPT !.regs[1] = v, !.globals[1] = w] :
        v \in {0, 1}, w \in {0, Modulus - 1}}

InitFused ==
    \E P \in FusedPrograms, c \in FusedContexts, dbg \in BOOLEAN :
        Start([e \in {"rt", "ct2"} |-> IF e = "rt" THEN P ELSE compile_program(P)],
              [e \in Engines |-> c], dbg)

NextFused ==
    \/ rt_execute
    \/ ct2_execute

SpecFused == InitFused /\ [][NextFused]_vars

----------------------------------------------------------------------------
(* A Global-only program against its Register-only twin, both specialized  *)
(* and run by ct2::execute; the twin's registers start as the globals do.  *)

GlobalPool(n) ==
    {rt_add(Global(d), Global(a), Global(1)) : d, a \in {0, 1}}
    \cup {rt_sub(Global(d), Global(a), Global(1)) : d, a \in {0, 1}}
    \cup {rt_branch(t) : t \in 0 .. (n - 1)}
    \cup {rt_branch_eqz(t, Global(c)) : t \in 0 .. (n - 1), c \in {0, 1}}

GlobalReturns == {rt_ret(Global(r)) : r \in {0, 1}}

GlobalPrograms ==
    UNION {{P \in [1 .. n -> GlobalPool(n) \cup GlobalReturns] : P[n] \in GlobalReturns} :
              n \in 1 .. MaxLen}

\* Global(i) replaced by Register(i) in an operand, an instruction, a program.
OperandToRegister(x) == IF x.type = "Global" THEN Register(x.index) ELSE x

InstToRegisters(inst) ==
    CASE inst.op \in {"Add", "Sub"} ->
             [inst EXCEPT !.result = OperandToRegister(@),
                          !.lhs = OperandToRegister(@),
                          !.rhs = OperandToRegister(@)]
      [] inst.op = "Branch" -> inst
      [] inst.op = "BranchEqz" -> [inst EXCEPT !.condition = OperandToRegister(@)]
      [] inst.op = "Return" -> [inst EXCEPT !.result = OperandToRegister(@)]

ToRegisters(P) == [i \in DOMAIN P |-> InstToRegisters(P[i])]

InitGlobal ==
    \E P \in GlobalPrograms, v \in {0, 1}, w \in {Modulus - 1}, dbg \in BOOLEAN :
        Start([e \in {"ct2", "ct2_twin"} |->
                  IF e = "ct2" THEN compile_program(P)
                               ELSE compile_program(ToRegisters(P))],
              [e \in {"ct2", "ct2_twin"} |->
                  IF e = "ct2"
                  THEN [fused_Context_default EXCEPT !.globals[0] = v, !.globals[1] = w]
                  ELSE [fused_Context_default EXCEPT !.regs[0] = v, !.regs[1] = w]],
              dbg)

NextGlobal ==
    \/ ct2_execute
    \/ ct2_execute_twin

SpecGlobal == InitGlobal /\ [][NextGlobal]_vars

----------------------------------------------------------------------------
(* The counter_loop test of every engine, with repetitions = n *)

counter_loop(n) ==
    <<AddImm(0, 0, n), BranchEqz(4, 0), SubImm(0, 0, 1), Branch(1), Return(0)>>

rt_counter_loop(n) ==
    <<rt_add(Register(0), Register(0), Const(n)),
      rt_branch_eqz(4, Register(0)),
      rt_sub(Register(0), Register(0), Const(1)),
      rt_branch(1),
      rt_ret(Register(0))>>

CounterEngines ==
    Engines \ {"ct2_twin", "rt2", "ct3", "closure_tree", "rt_twin", "ct", "enum_tree"}

CounterRuns(n) ==
    [e \in CounterEngines |->
        CASE e \in {"switch", "switch_tail"} -> counter_loop(n)
          [] e = "closure_loop" -> closure_loop_program(counter_loop(n))
          [] e = "closure_tail" -> closure_tail_program(counter_loop(n))
          [] e \in {"switch_2", "switch_tail_2"} -> Rewrite0(counter_loop(n))
          [] e = "closure_tail_2" -> closure_tail_2_program(Rewrite0(counter_loop(n)))
          [] e = "rt" -> rt_counter_loop(n)
          [] e = "ct2" -> compile_program(rt_counter_loop(n))]

InitCounter ==
    \E n \in 0 .. MaxN, dbg \in BOOLEAN :
        Start(CounterRuns(n),
              [e \in Engines |-> IF e \in {"rt", "ct2", "ct2_twin"}
                                 THEN fused_Context_default ELSE Context_default],
              dbg)

NextCounter ==
    \/ switch_execute
    \/ closure_loop_execute
    \/ switch_tail_execute
    \/ closure_tail_execute
    \/ switch_2_execute
    \/ switch_tail_2_execute
    \/ closure_tail_2_execute
    \/ rt_execute
    \/ ct2_execute

SpecCounter == InitCounter /\ [][NextCounter]_vars

\* Every engine that can take a turn eventually takes it.
FairCounter == SpecCounter /\ WF_vars(NextCounter)

----------------------------------------------------------------------------
(* switch::execute alone, on the programs with exactly one Return *)

Returns(P) == {i \in DOMAIN P : IsReturn(P[i])}

OneReturnPrograms == {P \in Programs : Cardinality(Returns(P)) = 1}

InitSwitch ==
    \E P \in OneReturnPrograms, c \in InitContexts :
        Start([e \in {"switch"} |-> P], [e \in {"switch"} |-> c], TRUE)

NextSwitch == switch_execute

SpecSwitch == InitSwitch /\ [][NextSwitch]_vars

\* execute keeps looping until it returns or panics.
FairSwitch == SpecSwitch /\ WF_vars(switch_execute)

----------------------------------------------------------------------------
(* Properties *)

Finished(e) == status[e] \in {"returned", "panicked", "crashed", "undefined"}

\* The repetition count of the counter loop the engines run.
Repetitions == insts["switch"][1].imm

\* C1 -- Dispatch equivalence: on the same program and from the same
\* Context, closure_loop, switch_tail and closure_tail return exactly when
\* switch returns, and then with the registers and the pc (so also the value
\* in register 0) that switch ends with.
DispatchEquivalence ==
    \A e \in DispatchEngines :
        Finished(e) =>
            /\ status[e] = "returned" <=> status["switch"] = "returned"
            /\ status[e] = "returned" => context[e] = context["switch"]

\* All four engines have returned from a program that took a branch over an
\* instruction and left a nonzero value in register 0.
DispatchWitness ==
    /\ \A e \in DispatchEngines : status[e] = "returned"
    /\ context["closure_tail"].regs[0] # 0
    /\ \E i \in DOMAIN hits["closure_tail"] : hits["closure_tail"][i] = 0

\* C2 -- Specialization transparency: with assertions enabled, rt::execute
\* on a dynamic program and ct2::execute on the compiled program both return
\* and end with identical registers, globals and pc.
SpecializationTransparency ==
    (debug_assertions /\ Finished("rt") /\ Finished("ct2")) =>
        /\ status["rt"] = "returned"
        /\ status["ct2"] = "returned"
        /\ context["rt"] = context["ct2"]

\* C3 -- Threaded-register equivalence: the rewritten program on switch_2,
\* switch_tail_2 and closure_tail_2 ends with the registers (and so the value
\* in register 0) that the program ends with on switch.
ThreadedEquivalence ==
    \A e \in ThreadedEngines :
        (status[e] = "returned" /\ status["switch"] = "returned") =>
            context[e].regs = context["switch"].regs

\* An instruction of a *_2 engine that is not in the *0 form and names
\* register 0 as an operand, so that it goes through array slot 0.
NamesSlot0(inst) ==
    IF "op" \in DOMAIN inst
    THEN CASE inst.op \in {"AddImm", "SubImm", "MulImm"} -> inst.result = 0 \/ inst.src = 0
           [] inst.op \in {"Add", "Sub", "Mul"} ->
                  inst.result = 0 \/ inst.lhs = 0 \/ inst.rhs = 0
           [] inst.op = "BranchEqz" -> inst.condition = 0
           [] inst.op = "Return" -> inst.result = 0
           [] OTHER -> FALSE
    ELSE CASE inst.handler \in {"add_imm", "sub_imm"} -> inst.result = 0 \/ inst.src = 0
           [] inst.handler = "branch_eqz" -> inst.condition = 0
           [] inst.handler = "ret" -> inst.result = 0
           [] OTHER -> FALSE

\* C4 -- The threaded reg0 and array slot 0 never diverge: whenever a *_2
\* engine is about to execute an instruction that goes through array slot 0,
\* the slot holds the threaded reg0 value.
Reg0NeverDiverges ==
    \A e \in ThreadedEngines :
        (/\ status[e] = "running"
         /\ context[e].pc < Len(insts[e])
         /\ NamesSlot0(insts[e][context[e].pc + 1])) =>
            context[e].regs[0] = reg0[e]

\* The program has exactly one Return and the control flow from pc = 0 leads to it.
OneReachableReturn(P) ==
    /\ Cardinality(Returns(P)) = 1
    /\ \E i \in Returns(P) : (i - 1) \in ReachableFrom(P, {0})

\* C5 as stated -- Termination: a program with exactly one Return, reachable
\* from pc = 0, eventually executes it.
Termination ==
    OneReachableReturn(insts["switch"]) ~> (status["switch"] = "returned")

\* Every branch of the program jumps forward to an instruction of the
\* program, and the program's last instruction is a Return.
ForwardToReturn(P) ==
    /\ IsReturn(P[Len(P)])
    /\ \A i \in DOMAIN P :
           (IsBranch(P[i]) \/ IsBranchEqz(P[i])) =>
               (P[i].target > i - 1 /\ P[i].target < Len(P))

\* The step of switch::execute that executes a Return.
ReturnStep ==
    /\ status["switch"] = "running"
    /\ status'["switch"] = "returned"

\* C5 as amended -- a program with exactly one Return, as its last
\* instruction, and forward branches only eventually executes that Return,
\* and the executed Return leaves in register 0 the value its source
\* register held immediately before.
ForwardTermination ==
    /\ (OneReachableReturn(insts["switch"]) /\ ForwardToReturn(insts["switch"]))
           ~> (status["switch"] = "returned")
    /\ [][ReturnStep =>
             context'["switch"].regs[0] =
                 context["switch"].regs[insts["switch"][context["switch"].pc + 1].result]]_vars

\* switch has returned a nonzero value from register 1 after taking a
\* forward branch over an instruction.
TerminationWitness ==
    /\ status["switch"] = "returned"
    /\ ForwardToReturn(insts["switch"])
    /\ insts["switch"][Len(insts["switch"])].result = 1
    /\ context["switch"].regs[0] # 0
    /\ \E i \in DOMAIN hits["switch"] : hits["switch"][i] = 0

ZeroIteration ==
    Repetitions = 0 =>
        \A e \in CounterEngines :
            /\ hits[e][2] = 0
            /\ hits[e][3] = 0
            /\ status[e] = "returned" =>
                   /\ context[e].regs[0] = 0
                   /\ hits[e][0] = 1 /\ hits[e][1] = 1 /\ hits[e][4] = 1
                   /\ context[e].pc = 4

\* Every engine has returned from the counter loop with 0 repetitions.
ZeroIterationWitness ==
    /\ Repetitions = 0
    /\ \A e \in CounterEngines : status[e] = "returned" /\ hits[e][1] = 1

\* C8 -- Global-only scenario: a program over Global operands only compiles
\* to the Global-only variants, and ct2::execute returns from it exactly when
\* it returns from the Register-only twin, with the same value in register 0.
GlobalOnly ==
    /\ \A i \in DOMAIN insts["ct2"] :
           insts["ct2"][i].variant \in {"AddGgg", "SubGgg", "Branch", "BranchEqzG", "ReturnG"}
    /\ (Finished("ct2") /\ Finished("ct2_twin")) =>
           /\ status["ct2"] = "returned"
           /\ status["ct2_twin"] = "returned"
           /\ context["ct2"].regs[0] = context["ct2_twin"].regs[0]

\* Both runs have returned a nonzero value that an Add or Sub computed.
GlobalOnlyWitness ==
    /\ status["ct2"] = "returned"
    /\ status["ct2_twin"] = "returned"
    /\ context["ct2"].regs[0] \notin {0, Modulus - 1}
    /\ \E i \in DOMAIN insts["ct2"] :
           insts["ct2"][i].variant \in {"AddGgg", "SubGgg"} /\ hits["ct2"][i - 1] > 0

\* C9 -- Global reads: with assertions enabled, a dynamic instruction whose
\* sources are globals below 16 executes without tripping an assertion.
GlobalReadsDoNotAbort ==
    debug_assertions => status["rt"] # "panicked"

\* The branch targets of the program all lie inside it.
TargetsInRange(P) ==
    \A i \in DOMAIN P :
        (IsBranch(P[i]) \/ IsBranchEqz(P[i])) => P[i].target < Len(P)

\* The program's last instruction is a Return or a Branch: no instruction
\* advances the pc past the end.
EndsInJump(P) == IsReturn(P[Len(P)]) \/ IsBranch(P[Len(P)])

OutOfRangePcIsFatal ==
    \A e \in DispatchEngines \cup ThreadedEngines :
        (status[e] # "idle" /\ context[e].pc >= Len(insts[e])) =>
            status[e] \in {"running", "panicked", "crashed"}

----------------------------------------------------------------------------
(* fused/rt2.rs: the dynamic instructions whose sink is a Register and     *)
(* whose sources are a Const or a Register                                 *)

rt2_Source_load(source, ctx) ==
    CASE source.type = "Const" -> Loaded(source.bits)
      [] source.type = "Register" -> fused_get_reg(ctx, source)

\* context.set_reg(self.result, value)
rt2_set_reg(reg, ctx, value) == fused_set_reg(ctx, reg, value)

rt2_add(result, lhs, rhs) == [op |-> "Add", result |-> result, lhs |-> lhs, rhs |-> rhs]

rt2_sub(result, lhs, rhs) == [op |-> "Sub", result |-> result, lhs |-> lhs, rhs |-> rhs]

rt2_mul(result, lhs, rhs) == [op |-> "Mul", result |-> result, lhs |-> lhs, rhs |-> rhs]

\* Inst::Eq(EqInst { result, lhs, rhs }) and Inst::Ne(NeInst { .. }): the
\* comparisons have no constructor function.
rt2_cmp(op, result, lhs, rhs) == [op |-> op, result |-> result, lhs |-> lhs, rhs |-> rhs]

rt2_branch(target) == [op |-> "Branch", target |-> target]

rt2_branch_eqz(target, condition) ==
    [op |-> "BranchEqz", target |-> target, condition |-> condition]

rt2_ret(result) == [op |-> "Return", result |-> result]

rt2_BranchEqzInst_execute(inst, ctx) ==
    LET condition == rt2_Source_load(inst.condition, ctx)
    IN IF condition.fault # "None" THEN Handled(ctx, condition.fault)
       ELSE IF condition.value = 0
            THEN Handled(branch_to(ctx, inst.target), "Continue")
            ELSE Handled(next_inst(ctx), "Continue")

rt2_ReturnInst_execute(inst, ctx) ==
    LET result == rt2_Source_load(inst.result, ctx)
    IN IF result.fault # "None" THEN Handled(ctx, result.fault)
       ELSE LET st == fused_set_reg(ctx, Register(0), result.value)
            IN Handled(st.context, IF st.fault # "None" THEN st.fault ELSE "Return")

rt2_Inst_execute(inst, ctx, r0) ==
    CASE inst.op = "Add" ->
             Looped(Binary(inst, ctx, wrapping_add, rt2_Source_load, rt2_set_reg), r0)
      [] inst.op = "Sub" ->
             Looped(Binary(inst, ctx, wrapping_sub, rt2_Source_load, rt2_set_reg), r0)
      [] inst.op = "Mul" ->
             Looped(Binary(inst, ctx, wrapping_mul, rt2_Source_load, rt2_set_reg), r0)
      [] inst.op = "Eq" ->
             Looped(Binary(inst, ctx, eq_bits, rt2_Source_load, rt2_set_reg), r0)
      [] inst.op = "Ne" ->
             Looped(Binary(inst, ctx, ne_bits, rt2_Source_load, rt2_set_reg), r0)
      [] inst.op = "Branch" ->
             Looped(Handled(branch_to(ctx, inst.target), "Continue"), r0)
      [] inst.op = "BranchEqz" -> Looped(rt2_BranchEqzInst_execute(inst, ctx), r0)
      [] inst.op = "Return" -> Looped(rt2_ReturnInst_execute(inst, ctx), r0)

rt2_execute == Turn("rt2", rt2_Inst_execute, TRUE)

----------------------------------------------------------------------------
(* fused/ct3.rs: the specialized instructions of rt2's dynamic ones *)

\* enum Inst: the variant that holds an instruction with sources of the
\* given types; the sink is always a Register.
ct3_VariantOf ==
    <<"Add", "Register", "Register">> :> "AddRr" @@
    <<"Add", "Register", "Const">> :> "AddRc" @@
    <<"Add", "Const", "Register">> :> "AddCr" @@
    <<"Add", "Const", "Const">> :> "AddCc" @@
    <<"Sub", "Register", "Register">> :> "SubRr" @@
    <<"Sub", "Register", "Const">> :> "SubRc" @@
    <<"Sub", "Const", "Register">> :> "SubCr" @@
    <<"Sub", "Const", "Const">> :> "SubCc" @@
    <<"Branch">> :> "Branch" @@
    <<"BranchEqz", "Register">> :> "BranchEqzR" @@
    <<"BranchEqz", "Const">> :> "BranchEqzC" @@
    <<"Return", "Register">> :> "ReturnR" @@
    <<"Return", "Const">> :> "ReturnC"

ct3_Inst_from(inst) ==
    [variant |->
         ct3_VariantOf[CASE inst.op \in {"Add", "Sub"} -> <<inst.op, inst.lhs.type, inst.rhs.type>>
                         [] inst.op = "Branch" -> <<"Branch">>
                         [] inst.op = "BranchEqz" -> <<"BranchEqz", inst.condition.type>>
                         [] inst.op = "Return" -> <<"Return", inst.result.type>>],
     inst |-> inst]

ct3_compile_DynamicAddInst(inst) ==
    CASE inst.lhs.type = "Const" /\ inst.rhs.type = "Const" ->
             ct3_Inst_from(ct_AddInst_new(inst.result, inst.lhs, inst.rhs))
      [] inst.lhs.type = "Const" /\ inst.rhs.type = "Register" ->
             ct3_Inst_from(ct_AddInst_new(inst.result, inst.lhs, inst.rhs))
      [] inst.lhs.type = "Register" /\ inst.rhs.type = "Const" ->
             ct3_Inst_from(ct_AddInst_new(inst.result, inst.lhs, inst.rhs))
      [] inst.lhs.type = "Register" /\ inst.rhs.type = "Register" ->
             ct3_Inst_from(ct_AddInst_new(inst.result, inst.lhs, inst.rhs))

\* A Sub specialized as the Add of its operands.
ct3_compile_DynamicSubInst_adds(inst) ==
    ct3_Inst_from(ct_AddInst_new(inst.result, inst.lhs, inst.rhs))

ct3_compile_DynamicSubInst(inst) ==
    CASE inst.lhs.type = "Const" /\ inst.rhs.type = "Const" ->
             ct3_Inst_from(ct_SubInst_new(inst.result, inst.lhs, inst.rhs))
      [] inst.lhs.type = "Const" /\ inst.rhs.type = "Register" ->
             ct3_Inst_from(ct_SubInst_new(inst.result, inst.lhs, inst.rhs))
      [] inst.lhs.type = "Register" /\ inst.rhs.type = "Const" ->
             ct3_Inst_from(ct_SubInst_new(inst.result, inst.lhs, inst.rhs))
      [] inst.lhs.type = "Register" /\ inst.rhs.type = "Register" ->
             ct3_Inst_from(ct_SubInst_new(inst.result, inst.lhs, inst.rhs))

ct3_compile_DynamicBranchInst(inst) == ct3_Inst_from(ct_BranchInst_new(inst.target))

ct3_compile_DynamicBranchEqzInst(inst) ==
    CASE inst.condition.type = "Const" ->
             ct3_Inst_from(ct_BranchEqzInst_new(inst.target, inst.condition))
      [] inst.condition.type = "Register" ->
             ct3_Inst_from(ct_BranchEqzInst_new(inst.target, inst.condition))

ct3_compile_DynamicReturnInst(inst) ==
    CASE inst.result.type = "Const" -> ct3_Inst_from(ct_ReturnInst_new(inst.result))
      [] inst.result.type = "Register" -> ct3_Inst_from(ct_ReturnInst_new(inst.result))

\* todo!(): a panic with the message "not yet implemented".
Todo == [panic |-> "not yet implemented"]

\* compile that specializes a Mul, Eq or Ne as the Add of its operands.
ct3_compile_falls_back(inst) ==
    CASE inst.op = "Add" -> ct3_compile_DynamicAddInst(inst)
      [] inst.op = "Sub" -> ct3_compile_DynamicSubInst(inst)
      [] inst.op = "Branch" -> ct3_compile_DynamicBranchInst(inst)
      [] inst.op = "BranchEqz" -> ct3_compile_DynamicBranchEqzInst(inst)
      [] inst.op = "Return" -> ct3_compile_DynamicReturnInst(inst)
      [] OTHER -> ct3_compile_DynamicAddInst(inst)

\* impl Compile for DynamicInst: five opcodes have a specialized form, the
\* catch-all arm is todo!().
ct3_compile(inst) ==
    CASE inst.op = "Add" -> ct3_compile_DynamicAddInst(inst)
      [] inst.op = "Sub" -> ct3_compile_DynamicSubInst(inst)
      [] inst.op = "Branch" -> ct3_compile_DynamicBranchInst(inst)
      [] inst.op = "BranchEqz" -> ct3_compile_DynamicBranchEqzInst(inst)
      [] inst.op = "Return" -> ct3_compile_DynamicReturnInst(inst)
      [] OTHER -> Todo

\* insts.map(DynamicInst::compile), before execute is called: the first
\* todo!() unwinds and no program is built.
ct3_specialize ==
    /\ status["ct3"] = "compiling"
    /\ LET compiled == [i \in DOMAIN insts["ct3"] |-> ct3_compile(insts["ct3"][i])]
       IN IF \E i \in DOMAIN compiled : compiled[i] = Todo
          THEN /\ status' = [status EXCEPT !["ct3"] = "aborted"]
               /\ UNCHANGED insts
          ELSE /\ status' = [status EXCEPT !["ct3"] = "running"]
               /\ insts' = [insts EXCEPT !["ct3"] = compiled]
    /\ UNCHANGED <<context, reg0, hits, pending, debug_assertions>>

\* impl Execute for Inst: every arm is inst.execute(context) on the variant's payload.
ct3_Inst_execute(i, ctx, r0) ==
    CASE i.variant \in {"AddRr", "AddRc", "AddCr", "AddCc"} ->
             Looped(ct_AddInst_execute(i.inst, ctx), r0)
      [] i.variant \in {"SubRr", "SubRc", "SubCr", "SubCc"} ->
             Looped(ct_SubInst_execute(i.inst, ctx), r0)
      [] i.variant = "Branch" -> Looped(ct_BranchInst_execute(i.inst, ctx), r0)
      [] i.variant \in {"BranchEqzR", "BranchEqzC"} ->
             Looped(ct_BranchEqzInst_execute(i.inst, ctx), r0)
      [] i.variant \in {"ReturnR", "ReturnC"} ->
             Looped(ct_ReturnInst_execute(i.inst, ctx), r0)

ct3_execute == Turn("ct3", ct3_Inst_execute, TRUE)

----------------------------------------------------------------------------
(* The dynamic program on rt2::execute, and insts.map(compile) followed by *)
(* ct3::execute, from the same Context.                                    *)

Rt2Sources == {Register(1), Const(1)}

\* Every Add and Sub of the four source-type combinations, a Mul, an Eq and
\* a Ne, the branches into the program and the two Returns.
Rt2Pool(n) ==
    {rt2_add(Register(1), a, b) : a \in Rt2Sources, b \in Rt2Sources}
    \cup {rt2_sub(Register(1), a, b) : a \in Rt2Sources, b \in Rt2Sources}
    \cup {rt2_mul(Register(1), Register(1), Const(Modulus - 1)),
          rt2_cmp("Eq", Register(0), Register(1), Const(1)),
          rt2_cmp("Ne", Register(0), Register(1), Const(1))}
    \cup {rt2_branch(t) : t \in 0 .. (n - 1)}
    \cup {rt2_branch_eqz(t, c) : t \in 0 .. (n - 1), c \in Rt2Sources}
    \cup {rt2_ret(r) : r \in Rt2Sources}

Rt2Programs == UNION {[1 .. n -> Rt2Pool(n)] : n \in 1 .. FusedLen}

InitCt3 ==
    \E P \in Rt2Programs, v \in {0, 1} :
        /\ insts = [e \in Engines |-> IF e \in {"rt2", "ct3"} THEN P ELSE <<>>]
        /\ context = [e \in Engines |->
                         IF e \in {"rt2", "ct3"}
                         THEN [fused_Context_default EXCEPT !.regs[1] = v]
                         ELSE Context_default]
        /\ reg0 = [e \in Engines |-> 0]
        /\ status = [e \in Engines |->
                        CASE e = "rt2" -> "running"
                          [] e = "ct3" -> "compiling"
                          [] OTHER -> "idle"]
        /\ hits = [e \in Engines |->
                      IF e \in {"rt2", "ct3"} THEN [i \in 0 .. (Len(P) - 1) |-> 0] ELSE <<>>]
        /\ pending = [e \in Engines |-> 0]
        /\ debug_assertions = TRUE

NextCt3 ==
    \/ rt2_execute
    \/ ct3_specialize
    \/ ct3_execute

SpecCt3 == InitCt3 /\ [][NextCt3]_vars

\* The opcodes of rt2::Inst that ct3::Inst has no variant for.
Unspecialized == {"Mul", "Eq", "Ne"}

\* C12 -- Specializer totality: compile maps every dynamic instruction of
\* the eight opcodes to a specialized variant, so specializing a program
\* never aborts.
SpecializerTotality == status["ct3"] # "aborted"

\* C13 -- Specialization gap fails loudly: a program with a Mul, Eq or Ne is
\* never handed to ct3::execute; specializing it aborts with the program
\* as it was, no instruction executed and the pc at 0.
GapFailsLoudly ==
    (\E i \in DOMAIN insts["rt2"] : insts["rt2"][i].op \in Unspecialized) =>
        /\ status["ct3"] \in {"compiling", "aborted"}
        /\ insts["ct3"] = insts["rt2"]
        /\ context["ct3"].pc = 0
        /\ \A i \in DOMAIN hits["ct3"] : hits["ct3"][i] = 0

\* Specializing has aborted on a program that starts with an Add, of which
\* ct3 has executed nothing, while rt2::execute has executed its Mul.
GapFailsLoudlyWitness ==
    /\ status["ct3"] = "aborted"
    /\ insts["rt2"][1].op = "Add"
    /\ \E i \in DOMAIN insts["rt2"] :
           insts["rt2"][i].op = "Mul" /\ hits["rt2"][i - 1] > 0

----------------------------------------------------------------------------
(* Specializing with ct2: the dynamic program runs on rt::execute, and     *)
(* insts.map(DynamicInst::compile) is built and then run on ct2::execute.  *)

\* insts.map(DynamicInst::compile), before ct2::execute is called.
ct2_specialize ==
    /\ status["ct2"] = "compiling"
    /\ insts' = [insts EXCEPT !["ct2"] = compile_program(insts["ct2"])]
    /\ status' = [status EXCEPT !["ct2"] = "running"]
    /\ UNCHANGED <<context, reg0, hits, pending, debug_assertions>>

\* A Register, a Global and a Const that carry the number i.
Operands(i) == {Register(i), Global(i), Const(i)}

\* Every Add and Sub of the 18 combinations of operand types (the left
\* source carries 0, the right one 1, the sink 1), the branches into the
\* program on every type of condition.
CompilePool(n) ==
    {rt_add(s, a, b) : s \in {Register(1), Global(1)}, a \in Operands(0), b \in Operands(1)}
    \cup {rt_sub(s, a, b) : s \in {Register(1), Global(1)}, a \in Operands(0), b \in Operands(1)}
    \cup {rt_branch(t) : t \in 0 .. (n - 1)}
    \cup {rt_branch_eqz(t, c) : t \in 0 .. (n - 1), c \in Operands(1)}

CompileReturns == {rt_ret(r) : r \in Operands(1)}

\* Programs that end in a Return.
CompilePrograms ==
    UNION {{P \in [1 .. n -> CompilePool(n) \cup CompileReturns] : P[n] \in CompileReturns} :
              n \in 1 .. FusedLen}

InitCompile ==
    \E P \in CompilePrograms, dbg \in BOOLEAN :
        /\ insts = [e \in Engines |-> IF e \in {"rt", "ct2"} THEN P ELSE <<>>]
        /\ context = [e \in Engines |->
                         IF e \in {"rt", "ct2"}
                         THEN [fused_Context_default EXCEPT
                                   !.regs[1] = 1, !.globals[1] = Modulus - 1]
                         ELSE Context_default]
        /\ reg0 = [e \in Engines |-> 0]
        /\ status = [e \in Engines |->
                        CASE e = "rt" -> "running"
                          [] e = "ct2" -> "compiling"
                          [] OTHER -> "idle"]
        /\ hits = [e \in Engines |->
                      IF e \in {"rt", "ct2"} THEN [i \in 0 .. (Len(P) - 1) |-> 0] ELSE <<>>]
        /\ pending = [e \in Engines |-> 0]
        /\ debug_assertions = dbg

NextCompile ==
    \/ rt_execute
    \/ ct2_specialize
    \/ ct2_execute

SpecCompile == InitCompile /\ [][NextCompile]_vars

\* The letter that names an operand type in the variants of ct2::Inst.
Upper == [Register |-> "R", Global |-> "G", Const |-> "C"]

Lower == [Register |-> "r", Global |-> "g", Const |-> "c"]

Specialized(e) == status[e] \notin {"idle", "compiling", "aborted"}

\* C14 -- Kind- and operand-preserving specialization: the specialized form
\* of an Add or Sub is the variant named after the types of its sink, left
\* and right source, in this order, and holds the same sink and sources in
\* the same places; a BranchEqz and a Return keep the type and the value of
\* their source.
KindPreserving ==
    Specialized("ct2") =>
        \A i \in DOMAIN insts["rt"] :
            LET d == insts["rt"][i]
                s == insts["ct2"][i]
            IN CASE d.op \in {"Add", "Sub"} ->
                        /\ s.variant = d.op \o Upper[d.result.type]
                                            \o Lower[d.lhs.type] \o Lower[d.rhs.type]
                        /\ s.inst.op = d.op
                        /\ s.inst.result = d.result
                        /\ s.inst.lhs = d.lhs
                        /\ s.inst.rhs = d.rhs
                 [] d.op = "BranchEqz" ->
                        /\ s.variant = "BranchEqz" \o Upper[d.condition.type]
                        /\ s.inst.condition = d.condition
                 [] d.op = "Return" ->
                        /\ s.variant = "Return" \o Upper[d.result.type]
                        /\ s.inst.result = d.result
                 [] OTHER -> TRUE

\* ct2::execute has returned from a program specialized to SubRcg and
\* ReturnG, the Sub holding the constant 0 on the left and global 1 on the right.
KindPreservingWitness ==
    /\ status["ct2"] = "returned"
    /\ Len(insts["ct2"]) = 2
    /\ insts["ct2"][1].variant = "SubRcg"
    /\ insts["ct2"][1].inst.lhs = Const(0)
    /\ insts["ct2"][1].inst.rhs = Global(1)
    /\ insts["ct2"][2].variant = "ReturnG"

\* C15 -- Specialization preserves program shape: the specialized program
\* is as long as the dynamic one, its instruction i is the specialization of
\* instruction i, and every Branch and BranchEqz keeps its target.
ShapePreserved ==
    Specialized("ct2") =>
        /\ Len(insts["ct2"]) = Len(insts["rt"])
        /\ \A i \in DOMAIN insts["rt"] :
               /\ insts["ct2"][i] = compile(insts["rt"][i])
               /\ insts["rt"][i].op \in {"Branch", "BranchEqz"} =>
                      insts["ct2"][i].inst.target = insts["rt"][i].target

\* ct2::execute has returned from a specialized program whose first
\* instruction is a BranchEqz to index 1, taken.
ShapePreservedWitness ==
    /\ status["ct2"] = "returned"
    /\ Len(insts["ct2"]) = 2
    /\ insts["rt"][1].op = "BranchEqz"
    /\ insts["ct2"][1].inst.target = 1
    /\ hits["ct2"][0] = 1

----------------------------------------------------------------------------
(* The effect of one instruction on the Context of its engine *)

\* The instruction the engine executes next; a specialized instruction is
\* the variant's payload.
Fetched(e) ==
    LET i == insts[e][context[e].pc + 1]
    IN IF "variant" \in DOMAIN i THEN i.inst ELSE i

\* The engine is about to execute an instruction.
AtInstruction(e) == Scheduled(e) /\ context[e].pc < Len(insts[e])

\* The value an operand stands for in a Context: a register number of the
\* handlers, or a Register, Global or Const of the fused engines.
ValueIn(e, ctx, x) ==
    IF e \in {"rt", "ct2", "ct2_twin", "rt2", "ct3", "rt_twin", "ct"}
    THEN CASE x.type = "Register" -> ctx.regs[x.index]
           [] x.type = "Global" -> ctx.globals[x.index]
           [] x.type = "Const" -> x.bits
    ELSE ctx.regs[x]

ValueOf(e, x) == ValueIn(e, context[e], x)

\* The registers, and the globals of a fused Context.
Slots(ctx) == [c \in DOMAIN ctx \ {"pc"} |-> ctx[c]]

\* C16 -- Branch correctness: a BranchEqz sets pc to its target when the
\* condition it names holds 0 and to pc + 1 otherwise, and changes no register
\* and no global, on the shared handler, on rt and on the specialized forms.
BranchEqzCorrect ==
    [][\A e \in {"switch", "rt", "ct2"} :
          (AtInstruction(e) /\ IsBranchEqz(Fetched(e))) =>
              /\ context'[e].pc = IF ValueOf(e, Fetched(e).condition) = 0
                                  THEN Fetched(e).target
                                  ELSE context[e].pc + 1
              /\ Slots(context'[e]) = Slots(context[e])]_vars

----------------------------------------------------------------------------
(* Arithmetic at the edges of the word: a straight line of arithmetic      *)
(* instructions and a Return runs on switch::execute, and with Registers   *)
(* and Consts as operands on rt::execute, from registers that hold 0, 1    *)
(* and the largest word.                                                   *)

ArithLen == MaxLen - 1

\* Every arithmetic opcode of switch::Inst into register 1, the immediates 1
\* and the largest word.
EdgePool ==
    {Add(1, s, 1) : s \in RegPool} \cup {AddImm(1, s, i) : s \in RegPool, i \in {1, Modulus - 1}}
    \cup {Sub(1, s, 1) : s \in RegPool} \cup {SubImm(1, s, i) : s \in RegPool, i \in {1, Modulus - 1}}
    \cup {Mul(1, s, 1) : s \in RegPool} \cup {MulImm(1, s, i) : s \in RegPool, i \in {1, Modulus - 1}}

EdgePrograms ==
    UNION {{P \o <<Return(1)>> : P \in [1 .. n -> EdgePool]} : n \in 1 .. ArithLen}

\* The instruction as rt::Inst builds it: an immediate is a Const source.
rt_of(inst) ==
    CASE inst.op = "Add" -> rt_add(Register(inst.result), Register(inst.lhs), Register(inst.rhs))
      [] inst.op = "AddImm" -> rt_add(Register(inst.result), Register(inst.src), Const(inst.imm))
      [] inst.op = "Sub" -> rt_sub(Register(inst.result), Register(inst.lhs), Register(inst.rhs))
      [] inst.op = "SubImm" -> rt_sub(Register(inst.result), Register(inst.src), Const(inst.imm))
      [] inst.op = "Mul" -> rt_mul(Register(inst.result), Register(inst.lhs), Register(inst.rhs))
      [] inst.op = "MulImm" -> rt_mul(Register(inst.result), Register(inst.src), Const(inst.imm))
      [] inst.op = "Return" -> rt_ret(Register(inst.result))

InitArith ==
    \E P \in EdgePrograms, v \in {0, Modulus - 1}, w \in {1, Modulus - 1}, dbg \in BOOLEAN :
        Start([e \in {"switch", "rt"} |->
                  IF e = "switch" THEN P ELSE [i \in DOMAIN P |-> rt_of(P[i])]],
              [e \in {"switch", "rt"} |->
                  IF e = "switch"
                  THEN [Context_default EXCEPT !.regs[0] = v, !.regs[1] = w]
                  ELSE [fused_Context_default EXCEPT !.regs[0] = v, !.regs[1] = w]],
              dbg)

NextArith ==
    \/ switch_execute
    \/ rt_execute

SpecArith == InitArith /\ [][NextArith]_vars

IsArith(inst) == inst.op \in {"Add", "AddImm", "Sub", "SubImm", "Mul", "MulImm"}

\* The two values an arithmetic instruction combines.
LeftOf(e, inst) == ValueOf(e, IF "src" \in DOMAIN inst THEN inst.src ELSE inst.lhs)

RightOf(e, inst) == IF "imm" \in DOMAIN inst THEN inst.imm ELSE ValueOf(e, inst.rhs)

\* The result over the integers, before it is reduced to a word.
Exact(e, inst) ==
    CASE inst.op \in {"Add", "AddImm"} -> LeftOf(e, inst) + RightOf(e, inst)
      [] inst.op \in {"Sub", "SubImm"} -> LeftOf(e, inst) - RightOf(e, inst)
      [] inst.op \in {"Mul", "MulImm"} -> LeftOf(e, inst) * RightOf(e, inst)

\* C17 -- Arithmetic wraparound: an Add, Sub or Mul, immediate or not, goes
\* on to the next instruction whatever its operands hold, and its result slot
\* then holds the result over the integers reduced modulo 2^WordBits.
ArithmeticWraps ==
    [][\A e \in {"switch", "rt"} :
          (AtInstruction(e) /\ IsArith(Fetched(e))) =>
              /\ status'[e] = "running"
              /\ ValueIn(e, context'[e], Fetched(e).result) = Exact(e, Fetched(e)) % Modulus]_vars

\* 0 - 1 stored the largest word and the largest word + 1 stored 0, on both
\* engines.
ArithmeticWrapsWitness ==
    /\ insts["switch"] = <<SubImm(1, 0, 1), AddImm(1, 1, 1), Return(1)>>
    /\ status["switch"] = "returned"
    /\ status["rt"] = "returned"
    /\ hits["rt"][0] = 1
    /\ hits["rt"][1] = 1
    /\ context["switch"].regs[0] = 0
    /\ context["switch"].regs[1] = 0
    /\ context["rt"].regs[0] = 0
    /\ context["rt"].regs[1] = 0

\* C18 -- Return semantics and frame: a Return stores the value of its
\* operand into register 0 and ends the run with the Return outcome; pc stays
\* at the index of the Return, and no other register and no global changes.
ReturnFrame ==
    [][\A e \in {"switch", "rt"} :
          (AtInstruction(e) /\ IsReturn(Fetched(e))) =>
              /\ status'[e] = "returned"
              /\ context'[e] =
                     [context[e] EXCEPT !.regs[0] = ValueOf(e, Fetched(e).result)]]_vars

----------------------------------------------------------------------------
(* The frame of the operand accessors *)

\* The array of the Context an operand names a slot of.
ArrayOf(x) == IF x.type = "Register" THEN "regs" ELSE "globals"

\* The first, the second and the last slot of either array, as sinks.
EdgeSinks == {Register(i) : i \in {0, 1, NumRegs - 1}} \cup {Global(i) : i \in {0, 1, NumGlobals - 1}}

\* Sink::store of rt and Store::store of ct write the slot the sink names and
\* nothing else of the Context.
StoreFrame(ctx) ==
    \A s \in EdgeSinks, v \in {0, Modulus - 1} :
        LET written == Stored([ctx EXCEPT ![ArrayOf(s)][s.index] = v])
        IN /\ Sink_store(s, ctx, v) = written
           /\ ct_Store(s, ctx, v) = written

\* A load yields the value of the slot, or ends in a fault; a Const yields
\* its bits in any Context.
LoadFrame(ctx) ==
    /\ \A s \in EdgeSinks :
           /\ Source_load(s, ctx) \in {Loaded(ctx[ArrayOf(s)][s.index]), Faulted("Panic")}
           /\ ct_Load(s, ctx) = Loaded(ctx[ArrayOf(s)][s.index])
    /\ \A b \in {0, Modulus - 1}, other \in {ctx, fused_Context_default} :
           /\ Source_load(Const(b), other) = Loaded(b)
           /\ ct_Load(Const(b), other) = Loaded(b)

\* What one instruction of rt or ct2 leaves alone: everything when it loads
\* only or ends in a fault, everything but pc and the slot of its sink when
\* it stores.
StepFrame(e) ==
    LET inst == Fetched(e)
        ctx == context[e]
    IN IF inst.op \in {"Add", "Sub"}
       THEN \/ context'[e] = ctx /\ status'[e] = "panicked"
            \/ /\ status'[e] = "running"
               /\ context'[e].pc = ctx.pc + 1
               /\ \A a \in {"regs", "globals"} :
                      \A i \in DOMAIN ctx[a] :
                          (a # ArrayOf(inst.result) \/ i # inst.result.index) =>
                              context'[e][a][i] = ctx[a][i]
       ELSE inst.op \in {"Branch", "BranchEqz"} => Slots(context'[e]) = Slots(ctx)

\* C19 -- Operand frame: a load changes nothing of the Context and the load
\* of a Const does not depend on it; a store into Register(i) changes
\* register i only, a store into Global(i) global i only, and no store
\* changes pc.
OperandFrame ==
    [][\A e \in {"rt", "ct2"} :
          AtInstruction(e) =>
              /\ StoreFrame(context[e])
              /\ LoadFrame(context[e])
              /\ StepFrame(e)]_vars

\* Both engines have stored register 1 + 1 into global 1, which started as
\* 0: global 1 holds 2 and the registers are as they started.
OperandFrameWitness ==
    /\ insts["rt"][1] = rt_add(Global(1), Register(1), Const(1))
    /\ \A e \in {"rt", "ct2"} :
           /\ hits[e][0] = 1
           /\ context[e].globals = [fused_Context_default.globals EXCEPT ![1] = 2]
           /\ context[e].regs = [fused_Context_default.regs EXCEPT ![1] = 1]

----------------------------------------------------------------------------
(* closure_tree.rs: an instruction is a closure that may own the           *)
(* instruction to execute after it (next: Option<Inst>)                    *)

None == <<>>

\* An instruction that loses the instruction it was to own.
Some_dropped(inst) == None

Some(inst) == <<inst>>

closure_tree_add_imm(result, src, imm, next) ==
    [handler |-> "add_imm", result |-> result, src |-> src, imm |-> imm, next |-> next]

closure_tree_sub(result, lhs, rhs, next) ==
    [handler |-> "sub", result |-> result, lhs |-> lhs, rhs |-> rhs, next |-> next]

closure_tree_sub_imm(result, src, imm, next) ==
    [handler |-> "sub_imm", result |-> result, src |-> src, imm |-> imm, next |-> next]

closure_tree_mul(result, lhs, rhs, next) ==
    [handler |-> "mul", result |-> result, lhs |-> lhs, rhs |-> rhs, next |-> next]

closure_tree_branch(target) == [handler |-> "branch", target |-> target]

closure_tree_branch_eqz(target, condition, next) ==
    [handler |-> "branch_eqz", target |-> target, condition |-> condition, next |-> next]

closure_tree_ret(result) == [handler |-> "ret", result |-> result]

\* Inst::execute: with Some(next) the closure calls its handler, drops the
\* Outcome and executes next; with None it returns the handler's Outcome.
\* branch_eqz with Some(next) branches on zero and executes next otherwise.
RECURSIVE closure_tree_Inst_execute(_, _)
closure_tree_Inst_execute(inst, ctx) ==
    LET then(h) ==
            IF inst.next = None \/ h.outcome \in {"Panic", "UB"}
            THEN h
            ELSE closure_tree_Inst_execute(inst.next[1], h.context)
    IN CASE inst.handler = "add_imm" ->
                then(handler_add_imm(ctx, inst.result, inst.src, inst.imm))
         [] inst.handler = "sub" ->
                then(handler_sub(ctx, inst.result, inst.lhs, inst.rhs))
         [] inst.handler = "sub_imm" ->
                then(handler_sub_imm(ctx, inst.result, inst.src, inst.imm))
         [] inst.handler = "mul" ->
                then(handler_mul(ctx, inst.result, inst.lhs, inst.rhs))
         [] inst.handler = "branch" -> handler_branch(ctx, inst.target)
         [] inst.handler = "branch_eqz" ->
                IF inst.next = None
                THEN handler_branch_eqz(ctx, inst.target, inst.condition)
                ELSE IF ~reg_in_range(ctx, inst.condition)
                     THEN Handled(ctx, BadIndex)
                     ELSE IF get_reg(ctx, inst.condition) = 0
                          THEN Handled(branch_to(ctx, inst.target), "Continue")
                          ELSE closure_tree_Inst_execute(inst.next[1], ctx)
         [] inst.handler = "ret" -> handler_ret(ctx, inst.result)

closure_tree_step(inst, ctx, r0) == Looped(closure_tree_Inst_execute(inst, ctx), r0)

closure_tree_execute == Turn("closure_tree", closure_tree_step, TRUE)

\* The counter_loop test of closure_tree.rs.
closure_tree_counter_loop(n) ==
    <<closure_tree_add_imm(0, 0, n, None),
      closure_tree_branch_eqz(2, 0,
          Some(closure_tree_sub_imm(0, 0, 1, Some(closure_tree_branch(1))))),
      closure_tree_ret(0)>>

----------------------------------------------------------------------------
(* closure_tree::execute on the counter loop and on two-instruction        *)
(* programs of closures with and without a next instruction; switch runs   *)
(* the counter loop of switch.rs.                                          *)

\* The closures without a next instruction.
TreeLeaves ==
    {closure_tree_add_imm(0, 0, 1, None), closure_tree_sub_imm(0, 0, 1, None),
     closure_tree_sub(1, 1, 0, None), closure_tree_mul(1, 1, 0, None),
     closure_tree_branch(1), closure_tree_branch_eqz(0, 0, None), closure_tree_ret(0)}

\* The leaves, and every closure that owns a leaf as its next instruction.
TreePool ==
    TreeLeaves
    \cup {closure_tree_add_imm(0, 0, 1, Some(l)) : l \in TreeLeaves}
    \cup {closure_tree_sub_imm(0, 0, 1, Some(l)) : l \in TreeLeaves}
    \cup {closure_tree_sub(1, 1, 0, Some(l)) : l \in TreeLeaves}
    \cup {closure_tree_mul(1, 1, 0, Some(l)) : l \in TreeLeaves}
    \cup {closure_tree_branch_eqz(1, 0, Some(l)) : l \in TreeLeaves}

TreePrograms ==
    {closure_tree_counter_loop(n) : n \in 0 .. MaxN}
    \cup {<<i, closure_tree_ret(0)>> : i \in TreePool}

InitTree ==
    \E T \in TreePrograms, v \in {0, 1} :
        Start([e \in {"switch", "closure_tree"} |->
                  IF e = "switch" THEN counter_loop(v) ELSE T],
              [e \in {"switch", "closure_tree"} |-> [Context_default EXCEPT !.regs[1] = v]],
              TRUE)

NextTree ==
    \/ switch_execute
    \/ closure_tree_execute

SpecTree == InitTree /\ [][NextTree]_vars

\* Where pc is after the instruction the engine is about to execute: at the
\* target of a Branch or of a BranchEqz on zero, unchanged by a Return, and
\* at pc + 1 otherwise.  A BranchEqz0 tests the threaded reg0.
NextPc(e) ==
    LET inst == Fetched(e)
        pc == context[e].pc
    IN CASE IsReturn(inst) -> pc
         [] IsBranch(inst) -> inst.target
         [] IsBranchEqz(inst) ->
                IF context[e].regs[inst.condition] = 0 THEN inst.target ELSE pc + 1
         [] OTHER ->
                IF "op" \in DOMAIN inst /\ inst.op = "BranchEqz0" /\ reg0[e] = 0
                THEN inst.target
                ELSE pc + 1

\* C20 -- pc discipline: an instruction that is not a Return leaves pc at
\* pc + 1 or at its branch target, so that the instruction at index i + 1
\* follows a straight-line instruction at index i; a Return leaves pc as it
\* is.  For the engines of switch.rs, switch_tail_2.rs and closure_tree.rs.
PcDiscipline ==
    [][\A e \in {"switch", "switch_tail_2", "closure_tree"} :
          AtInstruction(e) => context'[e].pc = NextPc(e)]_vars

----------------------------------------------------------------------------
(* How a run ends *)

----------------------------------------------------------------------------
(* The comparisons: rt::execute runs one or two of them and a Return, and  *)
(* rt2::execute the same program with Register(i) for every Global(i).     *)

\* Inst::Eq(EqInst { result, lhs, rhs }) and Inst::Ne(NeInst { .. }) of rt.
rt_cmp(op, result, lhs, rhs) == [op |-> op, result |-> result, lhs |-> lhs, rhs |-> rhs]

CmpPool ==
    {rt_cmp(op, s, a, b) : op \in {"Eq", "Ne"}, s \in {Register(1), Global(1)},
                           a \in {Register(0), Global(1)},
                           b \in {Register(1), Global(1), Const(1)}}

\* One comparison, or with a longer MaxLen some in a row, and a Return.
CmpLen == MaxLen - 2

CmpPrograms ==
    UNION {{P \o <<rt_ret(Register(1))>> : P \in [1 .. n -> CmpPool]} : n \in 1 .. CmpLen}

\* The rt2 instruction with the registers of the same indices as operands.
rt2_of(inst) ==
    IF inst.op = "Return"
    THEN rt2_ret(OperandToRegister(inst.result))
    ELSE rt2_cmp(inst.op, OperandToRegister(inst.result),
                 OperandToRegister(inst.lhs), OperandToRegister(inst.rhs))

InitCmp ==
    \E P \in CmpPrograms, v \in {0, 1}, w \in {0, 1}, dbg \in BOOLEAN :
        Start([e \in {"rt", "rt2"} |->
                  IF e = "rt" THEN P ELSE [i \in DOMAIN P |-> rt2_of(P[i])]],
              [e \in {"rt", "rt2"} |->
                  [fused_Context_default EXCEPT !.regs[0] = v, !.regs[1] = 1, !.globals[1] = w]],
              dbg)

NextCmp ==
    \/ rt_execute
    \/ rt2_execute

SpecCmp == InitCmp /\ [][NextCmp]_vars

\* What a comparison stores: 1 when the operands compare as its opcode says.
CmpBit(e, inst) ==
    IF (ValueOf(e, inst.lhs) = ValueOf(e, inst.rhs)) <=> (inst.op = "Eq") THEN 1 ELSE 0

\* C22 -- Comparison instructions: an Eq stores 1 into its sink when its
\* sources hold equal values and 0 otherwise, a Ne the reverse; both advance
\* pc by one and change no other slot.
ComparisonCorrect ==
    [][\A e \in {"rt", "rt2"} :
          (AtInstruction(e) /\ Fetched(e).op \in {"Eq", "Ne"}) =>
              context'[e] =
                  [context[e] EXCEPT
                      !.pc = @ + 1,
                      ![ArrayOf(Fetched(e).result)][Fetched(e).result.index] =
                          CmpBit(e, Fetched(e))]]_vars

----------------------------------------------------------------------------
(* Indices past the arrays: switch::execute, or rt::execute, runs a        *)
(* program whose operands name slot 1 or the slot one past the last.       *)

\* Slot 1 and the first index that is out of range.
EdgeIndices == {1, NumRegs}

BadIndexPool ==
    {AddImm(r, s, 1) : r \in EdgeIndices, s \in EdgeIndices}
    \cup {Add(r, a, 1) : r \in EdgeIndices, a \in EdgeIndices}
    \cup {BranchEqz(1, c) : c \in EdgeIndices}

BadIndexPrograms ==
    UNION {{P \o <<Return(r)>> : P \in [1 .. n -> BadIndexPool], r \in EdgeIndices} :
              n \in 0 .. (FusedLen - 1)}

\* Register sinks and sources, Global sinks: the operands that go through
\* get_reg, set_reg and set_global.
rt_BadIndexPool ==
    {rt_add(s, a, Const(1)) :
        s \in {Register(i) : i \in EdgeIndices} \cup {Global(1), Global(NumGlobals)},
        a \in {Register(i) : i \in EdgeIndices} \cup {Const(1)}}
    \cup {rt_branch_eqz(1, Register(c)) : c \in EdgeIndices}

rt_BadIndexPrograms ==
    UNION {{P \o <<rt_ret(Register(r))>> : P \in [1 .. n -> rt_BadIndexPool], r \in EdgeIndices} :
              n \in 0 .. (FusedLen - 1)}

InitBadIndex ==
    \E dbg \in BOOLEAN :
        \/ \E P \in BadIndexPrograms :
               Start([e \in {"switch"} |-> P],
                     [e \in {"switch"} |-> [Context_default EXCEPT !.regs[1] = 1]], dbg)
        \/ \E P \in rt_BadIndexPrograms :
               Start([e \in {"rt"} |-> P],
                     [e \in {"rt"} |-> [fused_Context_default EXCEPT !.regs[1] = 1]], dbg)

NextBadIndex ==
    \/ switch_execute
    \/ rt_execute

SpecBadIndex == InitBadIndex /\ [][NextBadIndex]_vars

\* The register and global indices the instruction hands to get_reg, set_reg
\* and set_global.
IndicesOf(e, inst) ==
    LET operands == {inst[f] : f \in DOMAIN inst \cap {"result", "lhs", "rhs", "src", "condition"}}
    IN IF e = "rt"
       THEN {x.index : x \in {y \in operands : y.type # "Const"}}
       ELSE operands

\* C23 -- Out-of-range indices are trapped: with assertions enabled, an
\* instruction that hands get_reg, set_reg or set_global an index of 16 or
\* more panics, and pc, the registers and the globals are as before it.
BadIndexTrapped ==
    [][\A e \in {"switch", "rt"} :
          (/\ debug_assertions
           /\ AtInstruction(e)
           /\ \E i \in IndicesOf(e, Fetched(e)) : i >= NumRegs) =>
              /\ status'[e] = "panicked"
              /\ context'[e] = context[e]]_vars

\* rt has panicked on a store into the global one past the last, with the
\* Context it started from.
BadIndexTrappedWitness ==
    /\ debug_assertions
    /\ status["rt"] = "panicked"
    /\ insts["rt"][1] = rt_add(Global(NumGlobals), Register(1), Const(1))
    /\ hits["rt"][0] = 1
    /\ context["rt"] = [fused_Context_default EXCEPT !.regs[1] = 1]

----------------------------------------------------------------------------
(* Two calls of rt::execute in progress at once, each on its own program   *)
(* and its own Context, their instructions interleaved in any order.       *)

rt_execute_concurrent == Step("rt", rt_Inst_execute, TRUE)

rt_execute_concurrent_twin == Step("rt_twin", rt_Inst_execute, TRUE)

\* The instructions one call of rt::execute can take in these programs.
MaxFuel == 3 * MaxN + 3

\* rt::execute(insts, context) run on its own: the Context it ends with and
\* how it ended, "running" when it is not over after fuel instructions.
RECURSIVE rt_run(_, _, _)
rt_run(P, ctx, fuel) ==
    IF fuel = 0 THEN [context |-> ctx, status |-> "running"]
    ELSE IF ctx.pc >= Len(P) THEN [context |-> ctx, status |-> "panicked"]
    ELSE LET res == rt_Inst_execute(P[ctx.pc + 1], ctx, 0)
         IN CASE res.outcome = "Continue" -> rt_run(P, res.context, fuel - 1)
              [] res.outcome = "Return" -> [context |-> res.context, status |-> "returned"]
              [] res.outcome = "Panic" -> [context |-> res.context, status |-> "panicked"]
              [] res.outcome = "UB" -> [context |-> res.context, status |-> "undefined"]

\* Programs over register 1 and global 1 whose branches go forward, and the
\* counter loop.
ForwardPool(n, i) ==
    {rt_add(s, a, Const(1)) : s \in FusedSinks, a \in FusedSources}
    \cup {rt_branch_eqz(t, c) : t \in (i + 1) .. (n - 1), c \in FusedSources}

ForwardPrograms ==
    UNION {{P \in [1 .. n -> ForwardPool(n, 0) \cup FusedReturns] :
               /\ P[n] \in FusedReturns
               /\ \A i \in 1 .. (n - 1) : P[i] \in ForwardPool(n, i)} : n \in 1 .. FusedLen}
    \cup {rt_counter_loop(1)}

TwinPrograms ==
    {rt_counter_loop(2),
     <<rt_add(Global(1), Register(1), Const(1)), rt_ret(Register(1))>>,
     <<rt_add(Register(1), Register(1), Register(1)), rt_ret(Const(1))>>}

\* The Contexts the two calls start from.
ConcurrentContexts ==
    [rt |-> [fused_Context_default EXCEPT !.regs[1] = 1],
     rt_twin |-> [fused_Context_default EXCEPT !.regs[1] = Modulus - 1, !.globals[1] = 1]]

InitConcurrent ==
    \E P \in ForwardPrograms, Q \in TwinPrograms, dbg \in BOOLEAN :
        Start([e \in {"rt", "rt_twin"} |-> IF e = "rt" THEN P ELSE Q],
              ConcurrentContexts, dbg)

NextConcurrent ==
    \/ rt_execute_concurrent
    \/ rt_execute_concurrent_twin

SpecConcurrent == InitConcurrent /\ [][NextConcurrent]_vars

\* The instructions the call of engine e has executed so far.
RECURSIVE Executions(_, _)
Executions(h, n) == IF n = 0 THEN 0 ELSE h[n - 1] + Executions(h, n - 1)

Executed(e) == Executions(hits[e], Len(insts[e]))

\* The call of engine e is where it is on its own after the instructions it
\* has executed, whatever the other call has executed in between.
AsAlone(e) ==
    LET alone == rt_run(insts[e], ConcurrentContexts[e], Executed(e))
    IN /\ context[e] = alone.context
       /\ status[e] = alone.status

\* The call of engine e, once over, is over in the state it ends in alone.
EndsAsAlone(e) ==
    LET alone == rt_run(insts[e], ConcurrentContexts[e], MaxFuel)
    IN status[e] # "running" =>
           /\ context[e] = alone.context
           /\ status[e] = alone.status

\* C24 -- Independent executions do not interfere: with the steps of two
\* calls interleaved in any order, the pc, registers and globals of each
\* call are at every moment those its own instructions alone produce, so no
\* step of the other call has changed them, and each call ends in the state
\* it ends in when it runs alone.
NoInterference ==
    \A e \in {"rt", "rt_twin"} : AsAlone(e) /\ EndsAsAlone(e)

\* The second call has returned from its counter loop while the first one
\* stands in the middle of its own.
NoInterferenceWitness ==
    /\ insts["rt"] = rt_counter_loop(1)
    /\ insts["rt_twin"] = rt_counter_loop(2)
    /\ status["rt"] = "running"
    /\ hits["rt"][2] = 1
    /\ context["rt"].pc = 3
    /\ status["rt_twin"] = "returned"
    /\ hits["rt_twin"][2] = 2

----------------------------------------------------------------------------
(* The state an engine starts from.                                        *)

\* The slots of an array are exactly n and all hold 0.
Zeroed(array, n) ==
    /\ DOMAIN array = 0 .. (n - 1)
    /\ Cardinality(DOMAIN array) = n
    /\ \A i \in DOMAIN array : array[i] = 0

----------------------------------------------------------------------------
(* rt2::execute and ct3::execute on the programs ct3 has a form for.       *)

\* The call of engine e is over.
Over(e) == status[e] \in {"returned", "panicked", "crashed", "undefined"}

\* C26 -- Register-only specialization transparency: for an rt2 program of
\* Add, Sub, Branch, BranchEqz and Return with Register or Const sources,
\* rt2::execute on the program and ct3::execute on its compiled form, from
\* the same Context, end the same way with identical registers and pc.
RegisterOnlyTransparency ==
    ((\A i \in DOMAIN insts["rt2"] : insts["rt2"][i].op \notin Unspecialized)
         /\ Over("rt2") /\ Over("ct3")) =>
        /\ context["ct3"].regs = context["rt2"].regs
        /\ context["ct3"].pc = context["rt2"].pc
        /\ status["ct3"] = status["rt2"]

\* Both engines have returned from a Sub of a Const from a Register that
\* wraps below zero, followed by a Return; ct3 ran the specialized SubRc.
RegisterOnlyTransparencyWitness ==
    /\ status["rt2"] = "returned"
    /\ status["ct3"] = "returned"
    /\ insts["rt2"][1] = rt2_sub(Register(1), Register(1), Const(1))
    /\ insts["ct3"][1].variant = "SubRc"
    /\ context["ct3"].regs[1] = Modulus - 1
    /\ context["ct3"].pc = 1

----------------------------------------------------------------------------
(* The handler invocations of a threaded engine that have not returned.    *)

\* No counter of engine e has reached the bound it stops counting at.
Unsaturated(e) == \A i \in DOMAIN hits[e] : hits[e][i] < MaxHits

\* C27 -- Threaded dispatch never returns to a driver between instructions:
\* in switch_tail and closure_tail, while the engine runs, the handler
\* invocations that have not returned are as many as the instructions
\* executed so far, and the engine has returned only after a Return
\* instruction has executed.
NeverBackToDriver ==
    \A e \in {"switch_tail", "closure_tail"} :
        Unsaturated(e) =>
            /\ status[e] = "running" => pending[e] = Executed(e)
            /\ status[e] = "returned" =>
                   \E i \in DOMAIN insts[e] : IsReturn(insts[e][i]) /\ hits[e][i - 1] > 0
            /\ pending[e] # Executed(e) =>
                   status[e] \in {"returned", "panicked"}

\* closure_tail is about to execute its third instruction with the two
\* invocations before it pending, after switch_tail has returned from the
\* same program; the loop of switch has none pending.
NeverBackToDriverWitness ==
    /\ status["closure_tail"] = "running"
    /\ context["closure_tail"].pc = 2
    /\ pending["closure_tail"] = 2
    /\ Executed("closure_tail") = 2
    /\ status["switch_tail"] = "returned"
    /\ pending["switch"] = 0

----------------------------------------------------------------------------
(* Instructions whose sink is one of their sources: switch::execute, or    *)
(* rt2::execute, or ct3::execute after compile, runs a program of them.    *)

\* The pairs of sources of an instruction into register 1 of which at least
\* one is register 1.
AliasedSources == {<<1, 1>>, <<1, 0>>, <<0, 1>>}

AliasPool ==
    {Add(1, p[1], p[2]) : p \in AliasedSources}
    \cup {Sub(1, p[1], p[2]) : p \in AliasedSources}
    \cup {Mul(1, p[1], p[2]) : p \in AliasedSources}

rt2_AliasPool(ops) ==
    {rt2_cmp(op, Register(1), Register(p[1]), Register(p[2])) :
         op \in ops, p \in AliasedSources}

\* The engine that runs and the program it runs; ct3 starts from the
\* dynamic program of Adds and Subs.
AliasRuns ==
    UNION {{[engine |-> "switch", program |-> P \o <<Return(1)>>] :
                P \in [1 .. n -> AliasPool]}
           \cup {[engine |-> "rt2", program |-> P \o <<rt2_ret(Register(1))>>] :
                P \in [1 .. n -> rt2_AliasPool({"Add", "Sub", "Mul", "Eq", "Ne"})]}
           \cup {[engine |-> "ct3", program |-> P \o <<rt2_ret(Register(1))>>] :
                P \in [1 .. n -> rt2_AliasPool({"Add", "Sub"})]} : n \in 1 .. ArithLen}

InitAlias ==
    \E run \in AliasRuns, v \in {1, Modulus - 1}, w \in {2, 3} :
        /\ insts = [e \in Engines |-> IF e = run.engine THEN run.program ELSE <<>>]
        /\ context = [e \in Engines |->
                         IF e = "switch"
                         THEN [Context_default EXCEPT !.regs[0] = v, !.regs[1] = w]
                         ELSE [fused_Context_default EXCEPT !.regs[0] = v, !.regs[1] = w]]
        /\ reg0 = [e \in Engines |-> 0]
        /\ status = [e \in Engines |->
                        CASE e # run.engine -> "idle"
                          [] e = "ct3" -> "compiling"
                          [] OTHER -> "running"]
        /\ hits = [e \in Engines |->
                      IF e = run.engine
                      THEN [i \in 0 .. (Len(run.program) - 1) |-> 0] ELSE <<>>]
        /\ pending = [e \in Engines |-> 0]
        /\ debug_assertions = TRUE

NextAlias ==
    \/ switch_execute
    \/ rt2_execute
    \/ ct3_specialize
    \/ ct3_execute

SpecAlias == InitAlias /\ [][NextAlias]_vars

\* What the opcode makes of the two values.
Applied(op, a, b) ==
    CASE op = "Add" -> (a + b) % Modulus
      [] op = "Sub" -> (a - b) % Modulus
      [] op = "Mul" -> (a * b) % Modulus
      [] op = "Eq" -> IF a = b THEN 1 ELSE 0
      [] op = "Ne" -> IF a # b THEN 1 ELSE 0

\* The value in the slot x of engine e's Context ctx.
SlotIn(e, ctx, x) == IF e = "switch" THEN ctx.regs[x] ELSE ctx[ArrayOf(x)][x.index]

\* C28 -- Operands are read before the result is written: an Add, Sub, Mul,
\* Eq or Ne leaves in its sink the operation applied to the values its two
\* sources held before the instruction, also when the sink is one of the
\* sources.
ReadBeforeWrite ==
    [][\A e \in {"switch", "rt2", "ct3"} :
          (AtInstruction(e) /\ Fetched(e).op \in {"Add", "Sub", "Mul", "Eq", "Ne"}) =>
              SlotIn(e, context'[e], Fetched(e).result) =
                  Applied(Fetched(e).op,
                          ValueOf(e, Fetched(e).lhs), ValueOf(e, Fetched(e).rhs))]_vars

\* switch has executed Add(1, 0, 1) on registers holding 1 and 2 and stands
\* before the Return with 3 in register 1, not the 2 that adding register 0
\* to itself makes.
ReadBeforeWriteWitness ==
    /\ status["switch"] = "running"
    /\ insts["switch"] = <<Add(1, 0, 1), Return(1)>>
    /\ context["switch"].pc = 1
    /\ context["switch"].regs[0] = 1
    /\ context["switch"].regs[1] = 3

----------------------------------------------------------------------------
(* fused/ct.rs: the fn-pointer engine.  An Inst is a handler, a function   *)
(* monomorphized for the type of the instruction it was built from, and    *)
(* InstData, the operands with their types erased.                         *)

\* impl From<Global> for RawSink, impl From<Register> for RawSink
RawSink_from(sink) == [index |-> sink.index]

\* impl From<Global>, From<Register>, From<Const> for RawSource: the index
\* as u64, or the bits of the constant.
RawSource_from(source) ==
    [index |-> IF source.type = "Const" THEN source.bits ELSE source.index]

\* impl From<RawSink> for Global and for Register
From_RawSink(type, sink) == [type |-> type, index |-> sink.index]

\* From<RawSource> that reads every index as the index of a Register.
From_RawSource_as_register(type, source) ==
    IF type = "Const" THEN Const(source.index) ELSE Register(source.index)

\* impl From<RawSource> for Global, for Register and for Const: the type is
\* the one the caller asks for.  The index was a usize before it was a u64,
\* so `as usize` gives it back.
From_RawSource(type, source) ==
    IF type = "Const" THEN Const(source.index) ELSE [type |-> type, index |-> source.index]

\* impl From<(Sink, Src0, Src1)> for InstData
InstData_from(sink, src0, src1) ==
    [sink |-> RawSink_from(sink), src0 |-> RawSource_from(src0), src1 |-> RawSource_from(src1)]

\* InstData::into_raw_parts::<Sink, Src0, Src1>
into_raw_parts(data, Sink, Src0, Src1) ==
    <<From_RawSink(Sink, data.sink), From_RawSource(Src0, data.src0),
      From_RawSource(Src1, data.src1)>>

\* impl IntoData for AddInst, SubInst, BranchInst, BranchEqzInst, ReturnInst
into_data(inst) ==
    CASE inst.op \in {"Add", "Sub"} -> InstData_from(inst.result, inst.lhs, inst.rhs)
      [] inst.op = "Branch" ->
             [sink |-> [index |-> inst.target], src0 |-> [index |-> 0], src1 |-> [index |-> 0]]
      [] inst.op = "BranchEqz" ->
             [sink |-> [index |-> inst.target], src0 |-> RawSource_from(inst.condition),
              src1 |-> [index |-> 0]]
      [] inst.op = "Return" ->
             [sink |-> [index |-> 0], src0 |-> RawSource_from(inst.result),
              src1 |-> [index |-> 0]]

\* impl FromData for the instruction type T, given as TypeOf gives it.
from_data(T, data) ==
    CASE T[1] = "Add" ->
             LET parts == into_raw_parts(data, T[2], T[3], T[4])
             IN ct_AddInst_new(parts[1], parts[2], parts[3])
      [] T[1] = "Sub" ->
             LET parts == into_raw_parts(data, T[2], T[3], T[4])
             IN ct_SubInst_new(parts[1], parts[2], parts[3])
      [] T[1] = "Branch" -> ct_BranchInst_new(data.sink.index)
      [] T[1] = "BranchEqz" ->
             ct_BranchEqzInst_new(data.sink.index, From_RawSource(T[2], data.src0))
      [] T[1] = "Return" -> ct_ReturnInst_new(From_RawSource(T[2], data.src0))

\* Inst::add, sub, branch, branch_eqz, ret: the handler is the closure for
\* the type of the instruction, the data is the instruction's into_data.
ct_Inst_add(result, lhs, rhs) ==
    LET inst == ct_AddInst_new(result, lhs, rhs)
    IN [handler |-> TypeOf(inst), data |-> into_data(inst)]

ct_Inst_sub(result, lhs, rhs) ==
    LET inst == ct_SubInst_new(result, lhs, rhs)
    IN [handler |-> TypeOf(inst), data |-> into_data(inst)]

ct_Inst_branch(target) ==
    LET inst == ct_BranchInst_new(target)
    IN [handler |-> TypeOf(inst), data |-> into_data(inst)]

ct_Inst_branch_eqz(target, condition) ==
    LET inst == ct_BranchEqzInst_new(target, condition)
    IN [handler |-> TypeOf(inst), data |-> into_data(inst)]

ct_Inst_ret(result) ==
    LET inst == ct_ReturnInst_new(result)
    IN [handler |-> TypeOf(inst), data |-> into_data(inst)]

\* Inst::execute: (self.handler)(context, self.data), and the handler is
\* <T as FromData>::from_data(data).execute(context).
ct_Inst_execute(inst, ctx, r0) ==
    LET typed == from_data(inst.handler, inst.data)
    IN CASE inst.handler[1] = "Add" -> Looped(ct_AddInst_execute(typed, ctx), r0)
         [] inst.handler[1] = "Sub" -> Looped(ct_SubInst_execute(typed, ctx), r0)
         [] inst.handler[1] = "Branch" -> Looped(ct_BranchInst_execute(typed, ctx), r0)
         [] inst.handler[1] = "BranchEqz" -> Looped(ct_BranchEqzInst_execute(typed, ctx), r0)
         [] inst.handler[1] = "Return" -> Looped(ct_ReturnInst_execute(typed, ctx), r0)

ct_execute == Turn("ct", ct_Inst_execute, TRUE)

----------------------------------------------------------------------------
(* The typed instructions on ct2::execute, and the ct::Inst built from     *)
(* each of them on ct::execute, from the same Context.                     *)

\* The ct::Inst the constructors of Inst build from the operands of a typed
\* instruction.
ct_Inst_of(inst) ==
    CASE inst.op = "Add" -> ct_Inst_add(inst.result, inst.lhs, inst.rhs)
      [] inst.op = "Sub" -> ct_Inst_sub(inst.result, inst.lhs, inst.rhs)
      [] inst.op = "Branch" -> ct_Inst_branch(inst.target)
      [] inst.op = "BranchEqz" -> ct_Inst_branch_eqz(inst.target, inst.condition)
      [] inst.op = "Return" -> ct_Inst_ret(inst.result)

\* Registers, globals and constants all hold different values.
ErasedContext ==
    [fused_Context_default EXCEPT !.regs[0] = 2, !.regs[1] = 3,
                                  !.globals[0] = 4, !.globals[1] = 5]

InitErased ==
    \E P \in CompilePrograms :
        Start([e \in {"ct", "ct2"} |->
                  IF e = "ct2" THEN compile_program(P)
                  ELSE [i \in DOMAIN P |-> ct_Inst_of(compile(P[i]).inst)]],
              [e \in {"ct", "ct2"} |-> ErasedContext],
              TRUE)

NextErased ==
    \/ ct_execute
    \/ ct2_execute

SpecErased == InitErased /\ [][NextErased]_vars

\* The typed instruction the i-th ct::Inst was built from.
TypedAt(i) == insts["ct2"][i].inst

\* C29 -- Type-erasure round trip in the fn-pointer engine: from_data of
\* into_data of a typed instruction is the instruction, with the operand
\* kinds, indices, constants and target it had, and a ct::Inst built by
\* Inst::add, sub, branch, branch_eqz or ret executes with exactly the
\* effect of the typed instruction it was built from.
ErasureRoundTrip ==
    [][/\ \A i \in DOMAIN insts["ct"] :
              from_data(TypeOf(TypedAt(i)), into_data(TypedAt(i))) = TypedAt(i)
       /\ AtInstruction("ct") =>
              LET typed == ct2_Inst_execute(insts["ct2"][context["ct"].pc + 1],
                                            context["ct"], reg0["ct"])
              IN /\ context'["ct"] = typed.context
                 /\ status'["ct"] = "returned" <=> typed.outcome = "Return"
                 /\ status'["ct"] = "running" <=> typed.outcome = "Continue"]_vars

\* ct has executed the Inst built from Add(Global(1), Global(0),
\* Register(1)): global 1 holds global 0 plus register 1, and the registers
\* are as they were.
ErasureRoundTripWitness ==
    /\ from_data(insts["ct"][1].handler, insts["ct"][1].data) =
           ct_AddInst_new(Global(1), Global(0), Register(1))
    /\ hits["ct"][0] = 1
    /\ context["ct"].pc = 1
    /\ context["ct"].globals[1] = 7
    /\ context["ct"].regs = ErasedContext.regs

----------------------------------------------------------------------------
(* The counter loop of n rounds as the flat program of switch.rs on        *)
(* switch::execute and as the tree of closure_tree.rs on                   *)
(* closure_tree::execute, from the same Context.                           *)

InitTreeLoop ==
    \E n \in 0 .. MaxN, v \in {0, 1} :
        Start([e \in {"switch", "closure_tree"} |->
                  IF e = "switch" THEN counter_loop(n) ELSE closure_tree_counter_loop(n)],
              [e \in {"switch", "closure_tree"} |-> [Context_default EXCEPT !.regs[1] = v]],
              TRUE)

NextTreeLoop ==
    \/ switch_execute
    \/ closure_tree_execute

SpecTreeLoop == InitTreeLoop /\ [][NextTreeLoop]_vars

\* C30 -- Tree-fused closures are equivalent to the flat program: the
\* counter loop of closure_tree.rs run with closure_tree::execute ends, by
\* returning, with the register values and the returned value (register 0)
\* the flat five-instruction loop run with switch::execute ends with, for
\* every n from 0 on.
TreeEquivalence ==
    (status["switch"] = "returned" /\ status["closure_tree"] # "running") =>
        /\ status["closure_tree"] = "returned"
        /\ context["closure_tree"].regs = context["switch"].regs
        /\ context["closure_tree"].regs[0] = 0
        /\ hits["closure_tree"][1] = hits["switch"][1]

\* Both engines have returned from the loop of MaxN rounds: closure_tree
\* has executed its branch_eqz tree once per round and once more to leave.
TreeEquivalenceWitness ==
    /\ status["switch"] = "returned"
    /\ status["closure_tree"] = "returned"
    /\ insts["closure_tree"] = closure_tree_counter_loop(MaxN)
    /\ hits["closure_tree"][0] = 1
    /\ hits["closure_tree"][1] = MaxN + 1
    /\ hits["closure_tree"][2] = 1
    /\ hits["switch"][2] = MaxN
    /\ context["closure_tree"].regs[1] = 1

----------------------------------------------------------------------------
(* closure_tree.rs: the handlers chained into one array element *)

\* Inst::execute of inst on ctx runs to its end without a branch, a taken
\* branch_eqz, a ret or a failed access.
RECURSIVE closure_tree_straight(_, _)
closure_tree_straight(inst, ctx) ==
    LET then(h) ==
            /\ h.outcome = "Continue"
            /\ inst.next = None \/ closure_tree_straight(inst.next[1], h.context)
    IN CASE inst.handler = "add_imm" ->
                then(handler_add_imm(ctx, inst.result, inst.src, inst.imm))
         [] inst.handler = "sub" ->
                then(handler_sub(ctx, inst.result, inst.lhs, inst.rhs))
         [] inst.handler = "sub_imm" ->
                then(handler_sub_imm(ctx, inst.result, inst.src, inst.imm))
         [] inst.handler = "mul" ->
                then(handler_mul(ctx, inst.result, inst.lhs, inst.rhs))
         [] inst.handler = "branch" -> FALSE
         [] inst.handler = "branch_eqz" ->
                /\ reg_in_range(ctx, inst.condition)
                /\ get_reg(ctx, inst.condition) # 0
                /\ inst.next = None \/ closure_tree_straight(inst.next[1], ctx)
         [] inst.handler = "ret" -> FALSE

\* C31 -- one array element, one step of pc: when closure_tree::execute
\* executes the array element at pc and the element returns Continue without
\* a branch taken, pc is then pc + 1, the index of the array element that
\* follows, however many handlers were chained into the element through next.
ChainAdvancesOnce ==
    [][(AtInstruction("closure_tree")
          /\ closure_tree_straight(Fetched("closure_tree"), context["closure_tree"]))
       => context'["closure_tree"].pc = context["closure_tree"].pc + 1]_vars

----------------------------------------------------------------------------
(* enum_tree.rs: enum Expr, an expression tree over the registers *)

\* The tuple structs Global(u32), Label(usize), Register(usize) and
\* Immediate(Bits); index and bits stand for their field 0.
enum_tree_Global(index) == [index |-> index]
Label(index) == [index |-> index]
enum_tree_Register(index) == [index |-> index]
Immediate(bits) == [bits |-> bits]

Expr_Immediate(immediate) == [expr |-> "Immediate", immediate |-> immediate]
LocalGet(register) == [expr |-> "LocalGet", register |-> register]
LocalTee(register, new_value) ==
    [expr |-> "LocalTee", register |-> register, new_value |-> new_value]

AddRr(lhs, rhs) == [expr |-> "AddRr", lhs |-> lhs, rhs |-> rhs]
AddRi(lhs, rhs) == [expr |-> "AddRi", lhs |-> lhs, rhs |-> rhs]
AddRe(lhs, rhs) == [expr |-> "AddRe", lhs |-> lhs, rhs |-> rhs]
AddIe(lhs, rhs) == [expr |-> "AddIe", lhs |-> lhs, rhs |-> rhs]
AddEe(lhs_rhs) == [expr |-> "AddEe", lhs_rhs |-> lhs_rhs]

SubRr(lhs, rhs) == [expr |-> "SubRr", lhs |-> lhs, rhs |-> rhs]
SubRi(lhs, rhs) == [expr |-> "SubRi", lhs |-> lhs, rhs |-> rhs]
SubRe(lhs, rhs) == [expr |-> "SubRe", lhs |-> lhs, rhs |-> rhs]
SubIe(lhs, rhs) == [expr |-> "SubIe", lhs |-> lhs, rhs |-> rhs]
SubEe(lhs_rhs) == [expr |-> "SubEe", lhs_rhs |-> lhs_rhs]

MulRr(lhs, rhs) == [expr |-> "MulRr", lhs |-> lhs, rhs |-> rhs]
MulRi(lhs, rhs) == [expr |-> "MulRi", lhs |-> lhs, rhs |-> rhs]
MulRe(lhs, rhs) == [expr |-> "MulRe", lhs |-> lhs, rhs |-> rhs]
MulIe(lhs, rhs) == [expr |-> "MulIe", lhs |-> lhs, rhs |-> rhs]
MulEe(lhs_rhs) == [expr |-> "MulEe", lhs_rhs |-> lhs_rhs]

\* The arms of Expr::evaluate by the shape of their operands.
ExprRr == {"AddRr", "SubRr", "MulRr"}
ExprRi == {"AddRi", "SubRi", "MulRi"}
ExprRe == {"AddRe", "SubRe", "MulRe"}
ExprIe == {"AddIe", "SubIe", "MulIe"}
ExprEe == {"AddEe", "SubEe", "MulEe"}

\* lhs.wrapping_add(rhs), lhs.wrapping_sub(rhs) or lhs.wrapping_mul(rhs), as
\* the arm's last line has it.
Expr_wrapping(name, lhs, rhs) ==
    CASE name \in {"AddRr", "AddRi", "AddRe", "AddIe", "AddEe"} -> wrapping_add(lhs, rhs)
      [] name \in {"SubRr", "SubRi", "SubRe", "SubIe", "SubEe"} -> wrapping_sub(lhs, rhs)
      [] name \in {"MulRr", "MulRi", "MulRe", "MulIe", "MulEe"} -> wrapping_mul(lhs, rhs)

\* What Expr::evaluate hands back: the Bits, and the Context as the
\* evaluation leaves it; or the failed register access that ended it.
Evaluated(ctx, bits) == [context |-> ctx, bits |-> bits, outcome |-> "Continue"]

Unevaluated(ctx) == [context |-> ctx, bits |-> 0, outcome |-> BadIndex]

RECURSIVE Expr_evaluate(_, _)

evaluate_LocalTee(expr, ctx) ==
    LET new_value == Expr_evaluate(expr.new_value, ctx)
    IN IF new_value.outcome # "Continue"
       THEN new_value
       ELSE IF ~reg_in_range(new_value.context, expr.register.index)
            THEN Unevaluated(new_value.context)
            ELSE Evaluated(set_reg(new_value.context, expr.register.index, new_value.bits),
                           new_value.bits)

evaluate_Rr(expr, ctx) ==
    IF ~(reg_in_range(ctx, expr.lhs.index) /\ reg_in_range(ctx, expr.rhs.index))
    THEN Unevaluated(ctx)
    ELSE Evaluated(ctx, Expr_wrapping(expr.expr, get_reg(ctx, expr.lhs.index),
                                      get_reg(ctx, expr.rhs.index)))

evaluate_Ri(expr, ctx) ==
    IF ~reg_in_range(ctx, expr.lhs.index)
    THEN Unevaluated(ctx)
    ELSE Evaluated(ctx, Expr_wrapping(expr.expr, get_reg(ctx, expr.lhs.index), expr.rhs.bits))

\* The Re arm reading its lhs register after it has evaluated rhs.
evaluate_Re_late(expr, ctx) ==
    IF ~reg_in_range(ctx, expr.lhs.index)
    THEN Unevaluated(ctx)
    ELSE LET rhs == Expr_evaluate(expr.rhs, ctx)
         IN IF rhs.outcome # "Continue"
            THEN rhs
            ELSE Evaluated(rhs.context,
                           Expr_wrapping(expr.expr, get_reg(rhs.context, expr.lhs.index),
                                         rhs.bits))

evaluate_Re(expr, ctx) ==
    IF ~reg_in_range(ctx, expr.lhs.index)
    THEN Unevaluated(ctx)
    ELSE LET lhs == get_reg(ctx, expr.lhs.index)
             rhs == Expr_evaluate(expr.rhs, ctx)
         IN IF rhs.outcome # "Continue"
            THEN rhs
            ELSE Evaluated(rhs.context, Expr_wrapping(expr.expr, lhs, rhs.bits))

evaluate_Ie(expr, ctx) ==
    LET lhs == expr.lhs.bits
        rhs == Expr_evaluate(expr.rhs, ctx)
    IN IF rhs.outcome # "Continue"
       THEN rhs
       ELSE Evaluated(rhs.context, Expr_wrapping(expr.expr, lhs, rhs.bits))

\* lhs_rhs[0] and lhs_rhs[1] of the source are elements 1 and 2 here.
evaluate_Ee(expr, ctx) ==
    LET lhs == Expr_evaluate(expr.lhs_rhs[1], ctx)
    IN IF lhs.outcome # "Continue"
       THEN lhs
       ELSE LET rhs == Expr_evaluate(expr.lhs_rhs[2], lhs.context)
            IN IF rhs.outcome # "Continue"
               THEN rhs
               ELSE Evaluated(rhs.context, Expr_wrapping(expr.expr, lhs.bits, rhs.bits))

Expr_evaluate(expr, ctx) ==
    CASE expr.expr = "Immediate" -> Evaluated(ctx, expr.immediate.bits)
      [] expr.expr = "LocalGet" ->
             IF reg_in_range(ctx, expr.register.index)
             THEN Evaluated(ctx, get_reg(ctx, expr.register.index))
             ELSE Unevaluated(ctx)
      [] expr.expr = "LocalTee" -> evaluate_LocalTee(expr, ctx)
      [] expr.expr \in ExprRr -> evaluate_Rr(expr, ctx)
      [] expr.expr \in ExprRi -> evaluate_Ri(expr, ctx)
      [] expr.expr \in ExprRe -> evaluate_Re(expr, ctx)
      [] expr.expr \in ExprIe -> evaluate_Ie(expr, ctx)
      [] expr.expr \in ExprEe -> evaluate_Ee(expr, ctx)

----------------------------------------------------------------------------
(* enum_tree.rs: enum Inst, Inst::execute and execute *)

LocalSet(register, expr) == [op |-> "LocalSet", register |-> register, expr |-> expr]
GlobalSet(global, expr) == [op |-> "GlobalSet", global |-> global, expr |-> expr]
enum_tree_Branch(label) == [op |-> "Branch", label |-> label]
BranchIf(label, condition) == [op |-> "BranchIf", label |-> label, condition |-> condition]
enum_tree_Return(result) == [op |-> "Return", result |-> result]

\* A GlobalSet arm that does nothing and goes on to the next instruction.
GlobalSet_execute_skips(ctx, global, expr) == Handled(next_inst(ctx), "Continue")

\* The GlobalSet arm is todo!(): it panics before it evaluates anything.
GlobalSet_execute(ctx, global, expr) == Handled(ctx, "Panic")

enum_tree_Inst_execute(inst, ctx) ==
    CASE inst.op = "LocalSet" ->
             LET new_value == Expr_evaluate(inst.expr, ctx)
             IN IF new_value.outcome # "Continue"
                THEN Handled(new_value.context, new_value.outcome)
                ELSE IF ~reg_in_range(new_value.context, inst.register.index)
                     THEN Handled(new_value.context, BadIndex)
                     ELSE Handled(next_inst(set_reg(new_value.context, inst.register.index,
                                                    new_value.bits)), "Continue")
      [] inst.op = "GlobalSet" -> GlobalSet_execute(ctx, inst.global, inst.expr)
      [] inst.op = "Branch" -> Handled(branch_to(ctx, inst.label.index), "Continue")
      [] inst.op = "BranchIf" ->
             LET condition == Expr_evaluate(inst.condition, ctx)
             IN IF condition.outcome # "Continue"
                THEN Handled(condition.context, condition.outcome)
                ELSE IF condition.bits = 0
                     THEN Handled(branch_to(condition.context, inst.label.index), "Continue")
                     ELSE Handled(next_inst(condition.context), "Continue")
      [] inst.op = "Return" ->
             LET new_value == Expr_evaluate(inst.result, ctx)
             IN IF new_value.outcome # "Continue"
                THEN Handled(new_value.context, new_value.outcome)
                ELSE Handled(set_reg(new_value.context, 0, new_value.bits), "Return")

enum_tree_step(inst, ctx, r0) == Looped(enum_tree_Inst_execute(inst, ctx), r0)

enum_tree_execute == Turn("enum_tree", enum_tree_step, TRUE)

\* The counter_loop test of enum_tree.rs, with repetitions = n.
enum_tree_counter_loop(n) ==
    <<LocalSet(enum_tree_Register(0), Expr_Immediate(Immediate(n))),
      BranchIf(Label(3), LocalTee(enum_tree_Register(0),
                                  SubRi(enum_tree_Register(0), Immediate(1)))),
      enum_tree_Branch(Label(1)),
      enum_tree_Return(LocalGet(enum_tree_Register(0)))>>

----------------------------------------------------------------------------
(* enum_tree::execute on the counter loop of enum_tree.rs *)

InitEnumLoop ==
    \E n \in 0 .. MaxN, v \in {0, 1}, dbg \in BOOLEAN :
        Start([e \in {"enum_tree"} |-> enum_tree_counter_loop(n)],
              [e \in {"enum_tree"} |-> [Context_default EXCEPT !.regs[1] = v]],
              dbg)

NextEnumLoop == enum_tree_execute

SpecEnumLoop == InitEnumLoop /\ [][NextEnumLoop]_vars

\* execute keeps looping until an instruction returns.
FairEnumLoop == SpecEnumLoop /\ WF_vars(NextEnumLoop)

\* The immediate the first instruction of the loop stores into r0.
EnumRepetitions == insts["enum_tree"][1].expr.immediate.bits

\* C32 -- enum_tree counter loop: the loop with immediate n returns, with 0
\* in register 0, having decremented r0 (the LocalTee of the BranchIf)
\* exactly n times; r0 never wraps around, so that with n = 0 the BranchIf
\* branches to the Return on its first check and the Branch never runs.
EnumCounterLoop ==
    /\ <>(status["enum_tree"] = "returned")
    /\ [](/\ status["enum_tree"] \in {"running", "returned"}
          /\ context["enum_tree"].regs[0] <= EnumRepetitions
          /\ EnumRepetitions = 0 => hits["enum_tree"][2] = 0
          /\ status["enum_tree"] = "returned" =>
                 /\ context["enum_tree"].regs[0] = 0
                 /\ EnumRepetitions > 0 => hits["enum_tree"][1] = EnumRepetitions)

----------------------------------------------------------------------------
(* enum_tree::execute on a LocalSet and a Return of one expression *)

\* Operands that change no register: an Immediate, a LocalGet (one of them
\* of a register the Context does not have) and the Rr and Ri forms.
ExprLeaves ==
    LET r0 == enum_tree_Register(0)
        r1 == enum_tree_Register(1)
        minus_one == Immediate(Modulus - 1)
    IN {Expr_Immediate(Immediate(2))}
       \cup {LocalGet(enum_tree_Register(index)) : index \in {0, 1, NumRegs}}
       \cup {AddRr(r0, r1), SubRr(r0, r1), MulRr(r0, r1),
             AddRi(r1, minus_one), SubRi(r1, minus_one), MulRi(r1, minus_one)}

ExprRegs == {enum_tree_Register(0), enum_tree_Register(1)}

ExprTees == {LocalTee(register, leaf) : register \in ExprRegs, leaf \in ExprLeaves}

ExprOperands == ExprLeaves \cup ExprTees

\* The operands, and every binary expression over them.
ExprPool ==
    ExprOperands
    \cup {AddRe(lhs, rhs) : lhs \in ExprRegs, rhs \in ExprOperands}
    \cup {SubRe(lhs, rhs) : lhs \in ExprRegs, rhs \in ExprOperands}
    \cup {MulRe(lhs, rhs) : lhs \in ExprRegs, rhs \in ExprOperands}
    \cup {AddIe(Immediate(3), rhs) : rhs \in ExprOperands}
    \cup {SubIe(Immediate(3), rhs) : rhs \in ExprOperands}
    \cup {MulIe(Immediate(3), rhs) : rhs \in ExprOperands}
    \cup {AddEe(<<lhs, rhs>>) : lhs \in ExprOperands, rhs \in ExprOperands}
    \cup {SubEe(<<lhs, rhs>>) : lhs \in ExprOperands, rhs \in ExprOperands}
    \cup {MulEe(<<lhs, rhs>>) : lhs \in ExprOperands, rhs \in ExprOperands}

\* Register 2 takes the value, so that what the expression did to registers
\* 0 and 1 stays in sight.
ExprPrograms ==
    {<<LocalSet(enum_tree_Register(2), expr), enum_tree_Return(expr)>> : expr \in ExprPool}

ExprContexts ==
    {[Context_default EXCEPT !.regs[0] = a, !.regs[1] = b] :
        a \in {0, 3}, b \in {1, Modulus - 1}}

InitExpr ==
    \E P \in ExprPrograms, c \in ExprContexts, dbg \in BOOLEAN :
        Start([e \in {"enum_tree"} |-> P], [e \in {"enum_tree"} |-> c], dbg)

NextExpr == enum_tree_execute

SpecExpr == InitExpr /\ [][NextExpr]_vars

RECURSIVE Yields(_, _)
RECURSIVE Leaves(_, _)

\* The value of an expression over the registers regs: a LocalTee has the
\* value of its sub-expression; a binary expression takes its left operand
\* from regs and its right operand from the registers as the left operand
\* has left them.
Yields(expr, regs) ==
    CASE expr.expr = "Immediate" -> expr.immediate.bits
      [] expr.expr = "LocalGet" -> regs[expr.register.index]
      [] expr.expr = "LocalTee" -> Yields(expr.new_value, regs)
      [] expr.expr \in ExprRr ->
             Expr_wrapping(expr.expr, regs[expr.lhs.index], regs[expr.rhs.index])
      [] expr.expr \in ExprRi -> Expr_wrapping(expr.expr, regs[expr.lhs.index], expr.rhs.bits)
      [] expr.expr \in ExprRe ->
             Expr_wrapping(expr.expr, regs[expr.lhs.index], Yields(expr.rhs, regs))
      [] expr.expr \in ExprIe ->
             Expr_wrapping(expr.expr, expr.lhs.bits, Yields(expr.rhs, regs))
      [] expr.expr \in ExprEe ->
             Expr_wrapping(expr.expr, Yields(expr.lhs_rhs[1], regs),
                           Yields(expr.lhs_rhs[2], Leaves(expr.lhs_rhs[1], regs)))

\* The registers an expression leaves: only a LocalTee writes, its own value
\* into its own register, after its sub-expression and before anything to
\* its right.
Leaves(expr, regs) ==
    CASE expr.expr \in {"Immediate", "LocalGet"} \cup ExprRr \cup ExprRi -> regs
      [] expr.expr = "LocalTee" ->
             [Leaves(expr.new_value, regs) EXCEPT ![expr.register.index] = Yields(expr, regs)]
      [] expr.expr \in ExprRe \cup ExprIe -> Leaves(expr.rhs, regs)
      [] expr.expr \in ExprEe -> Leaves(expr.lhs_rhs[2], Leaves(expr.lhs_rhs[1], regs))

\* The registers an expression names.
RECURSIVE ExprRegisters(_)
ExprRegisters(expr) ==
    CASE expr.expr = "Immediate" -> {}
      [] expr.expr = "LocalGet" -> {expr.register.index}
      [] expr.expr = "LocalTee" -> {expr.register.index} \cup ExprRegisters(expr.new_value)
      [] expr.expr \in ExprRr -> {expr.lhs.index, expr.rhs.index}
      [] expr.expr \in ExprRi -> {expr.lhs.index}
      [] expr.expr \in ExprRe -> {expr.lhs.index} \cup ExprRegisters(expr.rhs)
      [] expr.expr \in ExprIe -> ExprRegisters(expr.rhs)
      [] expr.expr \in ExprEe ->
             ExprRegisters(expr.lhs_rhs[1]) \cup ExprRegisters(expr.lhs_rhs[2])

\* C33 -- expression evaluation: a LocalSet or a Return whose expression
\* names registers of the Context stores the value of the expression
\* (into its register, or register 0) over the registers the expression
\* leaves, where a LocalTee stores and yields the value of its
\* sub-expression, a binary expression evaluates its left operand before its
\* right one (the Re forms read the lhs register first), and Immediate,
\* LocalGet, Rr and Ri change no register; pc moves on by one after the
\* LocalSet and stays at the Return.
EvaluationOrder ==
    [][AtInstruction("enum_tree") =>
          LET inst == Fetched("enum_tree")
              ctx == context["enum_tree"]
          IN /\ (inst.op = "LocalSet" /\ ExprRegisters(inst.expr) \subseteq DOMAIN ctx.regs) =>
                    /\ status'["enum_tree"] = "running"
                    /\ context'["enum_tree"].regs =
                           [Leaves(inst.expr, ctx.regs) EXCEPT
                               ![inst.register.index] = Yields(inst.expr, ctx.regs)]
                    /\ context'["enum_tree"].pc = ctx.pc + 1
             /\ (inst.op = "Return" /\ ExprRegisters(inst.result) \subseteq DOMAIN ctx.regs) =>
                    /\ status'["enum_tree"] = "returned"
                    /\ context'["enum_tree"].regs =
                           [Leaves(inst.result, ctx.regs) EXCEPT
                               ![0] = Yields(inst.result, ctx.regs)]
                    /\ context'["enum_tree"].pc = ctx.pc]_vars

\* The LocalSet of r0 - (r0 := 2) has run from r0 = 3: register 2 holds
\* 3 - 2, taken from r0 before the LocalTee in the right operand wrote it,
\* and r0 holds the 2 the LocalTee stored.
EvaluationOrderWitness ==
    /\ status["enum_tree"] = "running"
    /\ insts["enum_tree"][1] =
           LocalSet(enum_tree_Register(2),
                    SubRe(enum_tree_Register(0),
                          LocalTee(enum_tree_Register(0), Expr_Immediate(Immediate(2)))))
    /\ hits["enum_tree"][0] = 1
    /\ context["enum_tree"].pc = 1
    /\ context["enum_tree"].regs[2] = 1
    /\ context["enum_tree"].regs[0] = 2

----------------------------------------------------------------------------
(* enum_tree::execute on programs that hold a GlobalSet *)

\* A GlobalSet of an expression that would write r0 if it were evaluated,
\* and of one that would not.
TodoSets ==
    {GlobalSet(enum_tree_Global(global), expr) :
        global \in {0, 1},
        expr \in {Expr_Immediate(Immediate(2)),
                  LocalTee(enum_tree_Register(0), Expr_Immediate(Immediate(2)))}}

\* What runs before the GlobalSet at index 1: an assignment, a test of r0 or
\* of r1 that may skip it, a Branch over it, or a Branch to it.
TodoHeads ==
    {LocalSet(enum_tree_Register(1), LocalGet(enum_tree_Register(0))),
     LocalSet(enum_tree_Register(0), AddRi(enum_tree_Register(0), Immediate(1))),
     BranchIf(Label(2), LocalGet(enum_tree_Register(0))),
     BranchIf(Label(2), SubRi(enum_tree_Register(1), Immediate(1))),
     enum_tree_Branch(Label(2)),
     enum_tree_Branch(Label(1))}

TodoPrograms ==
    {<<set, enum_tree_Return(LocalGet(enum_tree_Register(1)))>> : set \in TodoSets}
    \cup {<<head, set, enum_tree_Return(LocalGet(enum_tree_Register(1)))>> :
             head \in TodoHeads, set \in TodoSets}

InitTodo ==
    \E P \in TodoPrograms, c \in ExprContexts, dbg \in BOOLEAN :
        Start([e \in {"enum_tree"} |-> P], [e \in {"enum_tree"} |-> c], dbg)

NextTodo == enum_tree_execute

SpecTodo == InitTodo /\ [][NextTodo]_vars

\* The indices, counted from 0, of the GlobalSets execute has fetched.
GlobalSetsHit ==
    {i \in DOMAIN hits["enum_tree"] :
        insts["enum_tree"][i + 1].op = "GlobalSet" /\ hits["enum_tree"][i] > 0}

\* C34 -- GlobalSet is unimplemented: executing a GlobalSet ends the run in
\* a panic with pc and every register as they were; it never goes on as if
\* it had done nothing, so a run that has fetched a GlobalSet has executed it
\* once, stays where it was and never returns.
GlobalSetAborts ==
    /\ [][(AtInstruction("enum_tree") /\ Fetched("enum_tree").op = "GlobalSet") =>
              /\ status'["enum_tree"] = "panicked"
              /\ context'["enum_tree"] = context["enum_tree"]]_vars
    /\ [](\A i \in GlobalSetsHit :
              /\ status["enum_tree"] = "panicked"
              /\ context["enum_tree"].pc = i
              /\ hits["enum_tree"][i] = 1
              /\ hits["enum_tree"][Len(insts["enum_tree"]) - 1] = 0)

\* The run has panicked at the GlobalSet of r0 := 2 that followed an
\* assignment to r1: pc is still at the GlobalSet, r0 still holds its 3, and
\* the Return was never executed.
GlobalSetAbortsWitness ==
    /\ status["enum_tree"] = "panicked"
    /\ Len(insts["enum_tree"]) = 3
    /\ insts["enum_tree"][1] = LocalSet(enum_tree_Register(1), LocalGet(enum_tree_Register(0)))
    /\ insts["enum_tree"][2] =
           GlobalSet(enum_tree_Global(1),
                     LocalTee(enum_tree_Register(0), Expr_Immediate(Immediate(2))))
    /\ hits["enum_tree"] = [i \in 0 .. 2 |-> IF i = 2 THEN 0 ELSE 1]
    /\ context["enum_tree"].pc = 1
    /\ context["enum_tree"].regs[0] = 3
    /\ context["enum_tree"].regs[1] = 3
    /\ ~debug_assertions

====
